---- MODULE Spec2Model ----
(***************************************************************************)
(* A model of the Grunt virtual machine (Code/libs/grunt): its two stacks  *)
(* in one backing array, the input queue, the output queue, the           *)
(* instruction set and the run loop of GRUNT_Run.                          *)
(*                                                                         *)
(* Every C function that returns a status is an operator from a machine    *)
(* record  st  to a machine record whose field  rc  is the returned        *)
(* status; the other fields of the record are the file-scope variables of  *)
(* the library.  The program is an input of GRUNT_Run: the model fixes     *)
(* each instruction the first time it is fetched and never changes it      *)
(* afterwards, which reaches the same runs as drawing the whole program    *)
(* beforehand, because an instruction matters only once it is fetched.     *)
(***************************************************************************)
EXTENDS Integers, Sequences, FiniteSets, TLC

VARIABLES
    family,               \* which family of inputs the caller draws from
    program,              \* GRUNT_Run parameter: the instructions
    decided,              \* addresses of program already fixed
    num_instructions,     \* GRUNT_Run parameter
    host,                 \* the build and its processor (see Hosts)
    phase,                \* position in GRUNT_Run: idle, loop, exit,
                          \* returned; or trapped, the process ended
    status,               \* GRUNT_Run local
    current_instruction,  \* GRUNT_Run local
    g_pc, g_ra, g_rb,                                 \* grunt.c
    g_stack, g_argument_count, g_control_count,       \* grunt_stack.c
    g_input_queue, g_input_queue_size, g_head_index,  \* grunt_input.c
    g_string_table, g_num_strings,                    \* grunt_output.c
    g_output_queue, g_tail_index,                     \* grunt_output.c
    events,               \* what CFE_EVS_SendEvent received, in order
    debug,                \* what grunt_vm_error printed, in order
    payload,              \* history: the bytes grunt_output_enqueue has
                          \* appended since the queue was last reset
    executed,             \* how many times the loop has called grunt_vm_step
    trace,                \* history: the addresses of the instructions
                          \* the loop has stepped, in order
    vsc,                  \* position in VSC_table_validate: idle,
                          \* entered, left
    vsc_result,           \* VSC_table_validate local  result
    perf,                 \* what CFE_ES_PerfLogEntry and
                          \* CFE_ES_PerfLogExit received, in order
    repeats,              \* history: the earlier call whose arguments
                          \* this call of GRUNT_Run repeats, or 0
    history               \* history: the calls of GRUNT_Run that returned

vars == <<family, program, decided, num_instructions, host, phase,
          status, current_instruction, g_pc, g_ra, g_rb,
          g_stack, g_argument_count, g_control_count,
          g_input_queue, g_input_queue_size, g_head_index,
          g_string_table, g_num_strings, g_output_queue, g_tail_index,
          events, debug, payload, executed, trace,
          vsc, vsc_result, perf, repeats, history>>

\* The variables of the caller and the history of earlier calls.
caller == <<vsc, vsc_result, perf, repeats, history>>

(***************************************************************************)
(* Program constants                                                       *)
(***************************************************************************)
GRUNT_HALT_TRUE == 1
GRUNT_HALT_FALSE == 2
GRUNT_ERROR_INTERPRETERBUG == 17
GRUNT_ERROR_INVALIDARGUMENT == 18
GRUNT_ERROR_INVALIDLITERAL == 19
GRUNT_ERROR_INVALIDOPCODE == 20
GRUNT_ERROR_NOLOOPS == 21
GRUNT_ERROR_NOPROGRAM == 22
GRUNT_ERROR_OUTOFBOUNDS == 23

GRUNT_OP_ADD == 1
GRUNT_OP_AND == 2
GRUNT_OP_CALL == 3
GRUNT_OP_DUP == 4
GRUNT_OP_EQ == 5
GRUNT_OP_FLUSH == 6
GRUNT_OP_GT == 7
GRUNT_OP_HALT == 8
GRUNT_OP_JMPIF == 9
GRUNT_OP_LT == 10
GRUNT_OP_NOT == 11
GRUNT_OP_OR == 12
GRUNT_OP_OUTPUT == 13
GRUNT_OP_POP == 14
GRUNT_OP_PUSHB == 15
GRUNT_OP_PUSHN == 16
GRUNT_OP_PUSHS == 17
GRUNT_OP_INPUT == 18
GRUNT_OP_RETURN == 19
GRUNT_OP_REWIND == 20
GRUNT_OP_ROLL == 21
GRUNT_OP_SUB == 22

\* A grunt_number_t is a uint32, written here as its two 16-bit halves
\* <<high, low>>, so that no number of the model exceeds what TLC
\* computes with.
U32(n) == <<n \div 65536, n % 65536>>
GRUNT_NUM_MAX == <<65535, 65535>>
GRUNT_PC_MAX == 65535
GRUNT_REP_MAX == 65535
UINT16_MAX == 65535

GRUNT_STACK_SIZE == 2 * 16

\* The per-event message length of the host framework: a mission
\* configuration parameter that this repository does not set.
CFE_MISSION_EVS_MAX_MESSAGE_LENGTH == 122
OUTPUT_QUEUE_SIZE == CFE_MISSION_EVS_MAX_MESSAGE_LENGTH

(***************************************************************************)
(* grunt_value_t: a tag and a union.  A Boolean is stored as 0 or 1.       *)
(***************************************************************************)
gt_bool == "gt_bool"
gt_num == "gt_num"
gt_str == "gt_str"
gt_pc == "gt_pc"
grunt_value_type_t == {gt_bool, gt_num, gt_str, gt_pc}

Value(t, v) == [type |-> t, val |-> v]
Bool(b) == Value(gt_bool, IF b THEN 1 ELSE 0)
Num(u) == Value(gt_num, u)
Str(i) == Value(gt_str, i)
PC(p) == Value(gt_pc, p)

\* uint32 arithmetic and comparison, as C computes them (modulo 2^32).
U32Less(a, b) == a[1] < b[1] \/ (a[1] = b[1] /\ a[2] < b[2])
U32Plus(a, b) ==
    LET lo == a[2] + b[2]
    IN <<(a[1] + b[1] + (lo \div 65536)) % 65536, lo % 65536>>
U32Minus(a, b) ==
    LET lo == a[2] - b[2]
        borrow == IF lo < 0 THEN 1 ELSE 0
    IN <<(a[1] - b[1] - borrow) % 65536, lo % 65536>>

\* Storage of static duration starts zeroed: tag 0 is gt_bool, value 0.
ZeroValue == Value(gt_bool, 0)

\* A function's return of a status, its effects on the machine kept.
Ret(st, code) == [st EXCEPT !.rc = code]

(***************************************************************************)
(* grunt_stack.c                                                           *)
(***************************************************************************)
grunt_stack_init(st) ==
    [st EXCEPT !.argc = 0, !.ctlc = 0]

grunt_stack_arg_push(st, p_arg) ==
    IF ~(p_arg.type = gt_bool \/ p_arg.type = gt_num \/ p_arg.type = gt_str)
    THEN Ret(st, GRUNT_ERROR_INTERPRETERBUG)
    ELSE IF (st.argc + st.ctlc + 1) > GRUNT_STACK_SIZE
    THEN Ret(st, GRUNT_ERROR_OUTOFBOUNDS)
    ELSE [st EXCEPT !.stack[st.argc] = p_arg, !.argc = @ + 1, !.rc = 0]

\* The popped value is returned in field  popped ; the caller stores it in
\* the register it passed.
grunt_stack_arg_pop(st) ==
    IF st.argc = 0
    THEN Ret(st, GRUNT_ERROR_OUTOFBOUNDS)
    ELSE [st EXCEPT !.argc = @ - 1, !.popped = st.stack[st.argc - 1],
                    !.rc = 0]

\* memcpy(&g_stack[dst], &g_stack[src], cnt slots).  When the two ranges
\* overlap the C standard leaves the result undefined; the model gives the
\* two results a C library produces: a copy that runs from the first slot
\* to the last (forward), which re-reads slots it has already written when
\* dst > src, and a copy that runs from the last slot to the first.
memcpy_slots(stack, dst, src, cnt, forward) ==
    [i \in DOMAIN stack |->
       IF i < dst \/ i >= dst + cnt THEN stack[i]
       ELSE IF forward /\ dst > src /\ dst < src + cnt
       THEN stack[src + ((i - dst) % (dst - src))]
       ELSE IF ~forward /\ dst < src /\ src < dst + cnt
       THEN stack[src + (cnt - 1) - (((cnt - 1) - (i - dst)) % (src - dst))]
       ELSE stack[src + (i - dst)]]

\* Mutant: the copy is made without asking whether n slots are free.
grunt_stack_arg_dup_no_room_test(st, n) ==
    IF n = 0
    THEN Ret(st, GRUNT_ERROR_INTERPRETERBUG)
    ELSE IF st.argc < n
    THEN Ret(st, GRUNT_ERROR_OUTOFBOUNDS)
    ELSE [st EXCEPT
            !.stack = memcpy_slots(st.stack, st.argc, st.argc - n, n,
                                   st.host.memcpy_forward),
            !.argc = @ + n, !.rc = 0]

grunt_stack_arg_dup(st, n) ==
    IF n = 0
    THEN Ret(st, GRUNT_ERROR_INTERPRETERBUG)
    ELSE IF st.argc < n
    THEN Ret(st, GRUNT_ERROR_OUTOFBOUNDS)
    ELSE IF (st.argc + st.ctlc + n) > GRUNT_STACK_SIZE
    THEN Ret(st, GRUNT_ERROR_OUTOFBOUNDS)
    ELSE [st EXCEPT
            !.stack = memcpy_slots(st.stack, st.argc, st.argc - n, n,
                                   st.host.memcpy_forward),
            !.argc = @ + n, !.rc = 0]

\* The top slot goes through  temp ; the n - 1 slots below it move up by
\* one with a memcpy whose ranges overlap when n > 2.
grunt_stack_arg_roll(st, n) ==
    IF n < 2
    THEN Ret(st, GRUNT_ERROR_INTERPRETERBUG)
    ELSE IF st.argc < n
    THEN Ret(st, GRUNT_ERROR_OUTOFBOUNDS)
    ELSE LET temp == st.stack[st.argc - 1]
             moved == memcpy_slots(st.stack, st.argc - n + 1, st.argc - n,
                                   n - 1, st.host.memcpy_forward)
         IN [st EXCEPT !.stack = [moved EXCEPT ![st.argc - n] = temp],
                       !.rc = 0]

\* Mutant: the push is made without asking whether a slot is free.
grunt_stack_ctl_push_no_room_test(st, p_arg) ==
    IF ~(p_arg.type = gt_pc)
    THEN Ret(st, GRUNT_ERROR_INTERPRETERBUG)
    ELSE [st EXCEPT !.stack[(GRUNT_STACK_SIZE - 1) - st.ctlc] = p_arg,
                    !.ctlc = @ + 1, !.rc = 0]

grunt_stack_ctl_push(st, p_arg) ==
    IF ~(p_arg.type = gt_pc)
    THEN Ret(st, GRUNT_ERROR_INTERPRETERBUG)
    ELSE IF (st.argc + st.ctlc + 1) > GRUNT_STACK_SIZE
    THEN Ret(st, GRUNT_ERROR_OUTOFBOUNDS)
    ELSE [st EXCEPT !.stack[(GRUNT_STACK_SIZE - 1) - st.ctlc] = p_arg,
                    !.ctlc = @ + 1, !.rc = 0]

\* Mutant: the pop reads the top entry and leaves the count as it was.
grunt_stack_ctl_pop_keeps_count(st) ==
    IF st.ctlc = 0
    THEN Ret(st, GRUNT_ERROR_OUTOFBOUNDS)
    ELSE [st EXCEPT !.popped = st.stack[(GRUNT_STACK_SIZE - 1) - (st.ctlc - 1)],
                    !.rc = 0]

grunt_stack_ctl_pop(st) ==
    IF st.ctlc = 0
    THEN Ret(st, GRUNT_ERROR_OUTOFBOUNDS)
    ELSE [st EXCEPT !.ctlc = @ - 1,
                    !.popped = st.stack[(GRUNT_STACK_SIZE - 1) - (st.ctlc - 1)],
                    !.rc = 0]

(***************************************************************************)
(* grunt_input.c.  The image is a sequence of bytes: C's byte i is         *)
(* queue[i + 1].  g_input_queue is a pointer: it is null until             *)
(* grunt_input_init stores the caller's.                                   *)
(***************************************************************************)
\* Mutant: a rewind by 0 is a rewind by 0 bytes, not a rewind to the start.
grunt_input_rewind_zero_stays(st, n) ==
    IF n > st.head
    THEN Ret(st, GRUNT_ERROR_OUTOFBOUNDS)
    ELSE [st EXCEPT !.head = @ - n, !.rc = 0]

grunt_input_rewind(st, n) ==
    IF n > st.head
    THEN Ret(st, GRUNT_ERROR_OUTOFBOUNDS)
    ELSE IF n = 0
    THEN [st EXCEPT !.head = 0, !.rc = 0]
    ELSE [st EXCEPT !.head = @ - n, !.rc = 0]

grunt_input_init(st, p_data, size) ==
    grunt_input_rewind([st EXCEPT !.inq = p_data, !.inq_null = FALSE,
                                  !.inq_size = size], 0)

\* The unsigned integer the host reads from n bytes of memory.
\* The load *((uintN_t *)&g_input_queue[g_head_index]) is made whatever
\* the index.  The image starts at an address that is a multiple of 4;
\* where the index is no multiple of n the C standard leaves the load
\* undefined, and the model gives the two results a processor produces:
\* the integer the n bytes hold, or a trap that ends the process before
\* grunt_input_dequeue returns (field  trap ; the callers' code after the
\* call is not run).
UIntAt(bytes, at, n, big) ==
    LET byte(k) == IF k >= n THEN 0          \* k-th least significant
                   ELSE IF big THEN bytes[at + n - k]
                   ELSE bytes[at + 1 + k]
    IN <<byte(2) + 256 * byte(3), byte(0) + 256 * byte(1)>>

grunt_input_dequeue(st, n) ==
    IF st.inq_null
    THEN Ret(st, GRUNT_ERROR_INTERPRETERBUG)
    ELSE IF ~(n = 1 \/ n = 2 \/ n = 4)
    THEN Ret(st, GRUNT_ERROR_INVALIDLITERAL)
    ELSE IF (st.head + n) > st.inq_size
    THEN Ret(st, GRUNT_ERROR_OUTOFBOUNDS)
    ELSE IF st.host.strict_alignment /\ (st.head % n) # 0
    THEN [st EXCEPT !.trap = TRUE, !.rc = -1]
    ELSE [st EXCEPT
            !.ra = Num(UIntAt(st.inq, st.head, n, st.host.big_endian)),
            !.head = @ + n, !.rc = 0]

(***************************************************************************)
(* grunt_output.c.  A string is a sequence of nonzero bytes; its           *)
(* terminating NUL is not stored.  C's string i is string_table[i + 1].    *)
(***************************************************************************)
grunt_output_reset(st) ==
    [st EXCEPT !.outq = [i \in 0 .. (OUTPUT_QUEUE_SIZE - 1) |-> 0],
               !.tail = 0, !.payload = <<>>]

\* Mutant: the test lets an append fill the byte kept for the NUL.
grunt_output_enqueue_fills_queue(st, string, length) ==
    IF st.tail + length > OUTPUT_QUEUE_SIZE
    THEN Ret(st, GRUNT_ERROR_OUTOFBOUNDS)
    ELSE [st EXCEPT
            !.outq = [i \in DOMAIN st.outq |->
                        IF i >= st.tail /\ i < st.tail + length
                        THEN string[i - st.tail + 1] ELSE st.outq[i]],
            !.tail = @ + length,
            !.payload = @ \o [i \in 1 .. length |-> string[i]],
            !.rc = 0]

grunt_output_enqueue(st, string, length) ==
    IF st.tail + length > (OUTPUT_QUEUE_SIZE - 1)
    THEN Ret(st, GRUNT_ERROR_OUTOFBOUNDS)
    ELSE [st EXCEPT
            !.outq = [i \in DOMAIN st.outq |->
                        IF i >= st.tail /\ i < st.tail + length
                        THEN string[i - st.tail + 1] ELSE st.outq[i]],
            !.tail = @ + length,
            !.payload = @ \o [i \in 1 .. length |-> string[i]],
            !.rc = 0]

grunt_output_init(st, string_table, num_strings) ==
    grunt_output_reset([st EXCEPT !.strings = string_table,
                                  !.num_strings = num_strings])

\* "true" and "false"
grunt_output_enqueue_boolean(st, tf) ==
    IF tf
    THEN grunt_output_enqueue(st, <<116, 114, 117, 101>>, 4)
    ELSE grunt_output_enqueue(st, <<102, 97, 108, 115, 101>>, 5)

\* What snprintf writes for "%u": the decimal digits, most significant
\* first, no sign, no padding.
RECURSIVE Decimal(_)
Decimal(u) ==
    LET t == (u[1] % 10) * 65536 + u[2]
        q == <<u[1] \div 10, t \div 10>>
    IN IF q = <<0, 0>> THEN <<48 + (t % 10)>>
       ELSE Append(Decimal(q), 48 + (t % 10))

\* At most ten digits: snprintf neither fails nor truncates in the
\* sixteen-byte buffer, and the length is never above GRUNT_REP_MAX.
grunt_output_enqueue_number(st, u) ==
    LET string == Decimal(u)
        length == Len(string)
    IN IF length > GRUNT_REP_MAX
       THEN Ret(st, GRUNT_ERROR_INTERPRETERBUG)
       ELSE grunt_output_enqueue(st, string, length)

\* length is a grunt_rep_t: the assignment length = strlen(...) keeps the
\* low sixteen bits, and the comparison reads the value assigned.
grunt_output_enqueue_string(st, string_index) ==
    IF ~(string_index < st.num_strings)
    THEN Ret(st, GRUNT_ERROR_INVALIDLITERAL)
    ELSE LET length == Len(st.strings[string_index + 1]) % (GRUNT_REP_MAX + 1)
         IN IF GRUNT_REP_MAX < length
            THEN Ret(st, GRUNT_ERROR_OUTOFBOUNDS)
            ELSE grunt_output_enqueue(st, st.strings[string_index + 1],
                                      length)

\* What "%s" prints of a buffer: the bytes before its first NUL (all of
\* the buffer if it holds none, where C reads on beyond it).
CString(buf) ==
    LET nuls == {i \in DOMAIN buf : buf[i] = 0}
        n == IF nuls = {} THEN OUTPUT_QUEUE_SIZE
             ELSE CHOOSE i \in nuls : \A j \in nuls : i <= j
    IN [i \in 1 .. n |-> buf[i - 1]]

\* Mutant: the queue is reset before it is sent.
grunt_output_flush_resets_first(st, event_type, event_id) ==
    LET s1 == grunt_output_reset(st)
    IN [s1 EXCEPT !.events = Append(@, [id |-> event_id,
                                        type |-> event_type,
                                        text |-> CString(s1.outq)])]

\* CFE_EVS_SendEvent(event_id, event_type, "%s", g_output_queue)
grunt_output_flush(st, event_type, event_id) ==
    grunt_output_reset(
        [st EXCEPT !.events = Append(@, [id |-> event_id,
                                         type |-> event_type,
                                         text |-> CString(st.outq)])])

(***************************************************************************)
(* Registers: a pop into *p_ra or *p_rb writes the register only when it   *)
(* succeeds.                                                               *)
(***************************************************************************)
PopRA(st) ==
    LET s == grunt_stack_arg_pop(st)
    IN IF s.rc # 0 THEN s ELSE [s EXCEPT !.ra = s.popped]

PopRB(st) ==
    LET s == grunt_stack_arg_pop(st)
    IN IF s.rc # 0 THEN s ELSE [s EXCEPT !.rb = s.popped]

(***************************************************************************)
(* grunt_vm_stack.c                                                        *)
(***************************************************************************)
grunt_vm_dup(st, reps) ==
    IF reps < 1 THEN Ret(st, GRUNT_ERROR_INVALIDLITERAL)
    ELSE grunt_stack_arg_dup(st, reps)

\* for (i = 0; i < reps; i++) pop into *p_ra, returning at the first failure
RECURSIVE grunt_vm_pop_loop(_, _, _)
grunt_vm_pop_loop(st, i, reps) ==
    IF ~(i < reps) THEN Ret(st, 0)
    ELSE LET s == PopRA(st)
         IN IF s.rc # 0 THEN s ELSE grunt_vm_pop_loop(s, i + 1, reps)

grunt_vm_pop(st, reps) ==
    IF reps < 1 THEN Ret(st, GRUNT_ERROR_INVALIDLITERAL)
    ELSE grunt_vm_pop_loop(st, 0, reps)

grunt_vm_pushb(st, p_literal) ==
    IF p_literal.type # gt_bool THEN Ret(st, GRUNT_ERROR_INVALIDLITERAL)
    ELSE grunt_stack_arg_push(st, p_literal)

grunt_vm_pushn(st, p_literal) ==
    IF p_literal.type # gt_num THEN Ret(st, GRUNT_ERROR_INVALIDLITERAL)
    ELSE grunt_stack_arg_push(st, p_literal)

grunt_vm_pushs(st, p_literal) ==
    IF p_literal.type # gt_str THEN Ret(st, GRUNT_ERROR_INVALIDLITERAL)
    ELSE grunt_stack_arg_push(st, p_literal)

\* Mutant: the count goes to the stack module without the test of its
\* minimum.
grunt_vm_roll_no_minimum(st, reps) ==
    grunt_stack_arg_roll(st, reps)

grunt_vm_roll(st, reps) ==
    IF reps < 2 THEN Ret(st, GRUNT_ERROR_INVALIDLITERAL)
    ELSE grunt_stack_arg_roll(st, reps)

(***************************************************************************)
(* grunt_vm_arithmetic.c                                                   *)
(***************************************************************************)
\* Mutant: the sum and the difference are taken without the tests for
\* overflow and underflow.
grunt_vm_add_sub_wraps(st, add_flag) ==
    LET s1 == PopRB(st)
    IN IF s1.rc # 0 THEN s1
       ELSE IF s1.rb.type # gt_num THEN Ret(s1, GRUNT_ERROR_INVALIDARGUMENT)
       ELSE LET s2 == PopRA(s1)
            IN IF s2.rc # 0 THEN s2
               ELSE IF s2.ra.type # gt_num
               THEN Ret(s2, GRUNT_ERROR_INVALIDARGUMENT)
               ELSE LET s3 == [s2 EXCEPT !.ra.val =
                                 IF add_flag THEN U32Plus(@, s2.rb.val)
                                 ELSE U32Minus(@, s2.rb.val)]
                    IN grunt_stack_arg_push(s3, s3.ra)

grunt_vm_add_sub(st, add_flag) ==
    LET s1 == PopRB(st)
    IN IF s1.rc # 0 THEN s1
       ELSE IF s1.rb.type # gt_num THEN Ret(s1, GRUNT_ERROR_INVALIDARGUMENT)
       ELSE LET s2 == PopRA(s1)
            IN IF s2.rc # 0 THEN s2
               ELSE IF s2.ra.type # gt_num
               THEN Ret(s2, GRUNT_ERROR_INVALIDARGUMENT)
               ELSE IF add_flag
               THEN IF U32Less(U32Minus(GRUNT_NUM_MAX, s2.ra.val), s2.rb.val)
                    THEN Ret(s2, GRUNT_ERROR_OUTOFBOUNDS)
                    ELSE LET s3 == [s2 EXCEPT !.ra.val =
                                      U32Plus(@, s2.rb.val)]
                         IN grunt_stack_arg_push(s3, s3.ra)
               ELSE IF U32Less(s2.ra.val, s2.rb.val)
                    THEN Ret(s2, GRUNT_ERROR_OUTOFBOUNDS)
                    ELSE LET s3 == [s2 EXCEPT !.ra.val =
                                      U32Minus(@, s2.rb.val)]
                         IN grunt_stack_arg_push(s3, s3.ra)

(***************************************************************************)
(* grunt_vm_logic.c                                                        *)
(***************************************************************************)
\* for (i = 1; i < n; i++): pop into *p_rb, and/or it into p_ra->val.b
RECURSIVE grunt_vm_and_or_loop(_, _, _, _)
grunt_vm_and_or_loop(st, i, n, and_flag) ==
    IF ~(i < n) THEN Ret(st, 0)
    ELSE LET s == PopRB(st)
         IN IF s.rc # 0 THEN s
            ELSE IF s.rb.type # gt_bool
            THEN Ret(s, GRUNT_ERROR_INVALIDARGUMENT)
            ELSE LET b == IF and_flag
                          THEN (s.ra.val # 0) /\ (s.rb.val # 0)
                          ELSE (s.ra.val # 0) \/ (s.rb.val # 0)
                 IN grunt_vm_and_or_loop(
                        [s EXCEPT !.ra.val = IF b THEN 1 ELSE 0],
                        i + 1, n, and_flag)

grunt_vm_and_or(st, n, and_flag) ==
    IF n < 2 THEN Ret(st, GRUNT_ERROR_INVALIDLITERAL)
    ELSE LET s1 == PopRA(st)
         IN IF s1.rc # 0 THEN s1
            ELSE IF s1.ra.type # gt_bool
            THEN Ret(s1, GRUNT_ERROR_INVALIDARGUMENT)
            ELSE LET s2 == grunt_vm_and_or_loop(s1, 1, n, and_flag)
                 IN IF s2.rc # 0 THEN s2
                    ELSE grunt_stack_arg_push(s2, s2.ra)

\* for (i = 1; i < n; i++): pop into *p_rb, compare with *p_ra;  eq  is the
\* local equal_flag
RECURSIVE grunt_vm_eq_loop(_, _, _, _)
grunt_vm_eq_loop(st, i, n, eq) ==
    IF ~(i < n) THEN [Ret(st, 0) EXCEPT !.flag = eq]
    ELSE LET s == PopRB(st)
         IN IF s.rc # 0 THEN s
            ELSE IF s.rb.type # gt_num
            THEN Ret(s, GRUNT_ERROR_INVALIDARGUMENT)
            ELSE grunt_vm_eq_loop(s, i + 1, n,
                                  IF s.ra.val # s.rb.val THEN FALSE ELSE eq)

\* Mutant: the first argument is popped before the count is looked at.
grunt_vm_eq_pops_first(st, n) ==
    LET s1 == PopRA(st)
    IN IF s1.rc # 0 THEN s1
       ELSE IF n < 2 THEN Ret(s1, GRUNT_ERROR_INVALIDLITERAL)
       ELSE IF s1.ra.type # gt_num
       THEN Ret(s1, GRUNT_ERROR_INVALIDARGUMENT)
       ELSE LET s2 == grunt_vm_eq_loop(s1, 1, n, TRUE)
            IN IF s2.rc # 0 THEN s2
               ELSE LET s3 == [s2 EXCEPT !.ra = Bool(s2.flag)]
                    IN grunt_stack_arg_push(s3, s3.ra)

grunt_vm_eq(st, n) ==
    IF n < 2 THEN Ret(st, GRUNT_ERROR_INVALIDLITERAL)
    ELSE LET s1 == PopRA(st)
         IN IF s1.rc # 0 THEN s1
            ELSE IF s1.ra.type # gt_num
            THEN Ret(s1, GRUNT_ERROR_INVALIDARGUMENT)
            ELSE LET s2 == grunt_vm_eq_loop(s1, 1, n, TRUE)
                 IN IF s2.rc # 0 THEN s2
                    ELSE LET s3 == [s2 EXCEPT !.ra = Bool(s2.flag)]
                         IN grunt_stack_arg_push(s3, s3.ra)

\* Mutant: the comparison takes the top slot for its left operand.
grunt_vm_lt_gt_top_first(st, lt_flag) ==
    LET s1 == PopRB(st)
    IN IF s1.rc # 0 THEN s1
       ELSE IF s1.rb.type # gt_num THEN Ret(s1, GRUNT_ERROR_INVALIDARGUMENT)
       ELSE LET s2 == PopRA(s1)
            IN IF s2.rc # 0 THEN s2
               ELSE IF s2.ra.type # gt_num
               THEN Ret(s2, GRUNT_ERROR_INVALIDARGUMENT)
               ELSE LET result == IF lt_flag THEN U32Less(s2.rb.val, s2.ra.val)
                                  ELSE U32Less(s2.ra.val, s2.rb.val)
                        s3 == [s2 EXCEPT !.ra = Bool(result)]
                    IN grunt_stack_arg_push(s3, s3.ra)

grunt_vm_lt_gt(st, lt_flag) ==
    LET s1 == PopRB(st)
    IN IF s1.rc # 0 THEN s1
       ELSE IF s1.rb.type # gt_num THEN Ret(s1, GRUNT_ERROR_INVALIDARGUMENT)
       ELSE LET s2 == PopRA(s1)
            IN IF s2.rc # 0 THEN s2
               ELSE IF s2.ra.type # gt_num
               THEN Ret(s2, GRUNT_ERROR_INVALIDARGUMENT)
               ELSE LET result == IF lt_flag THEN U32Less(s2.ra.val, s2.rb.val)
                                  ELSE U32Less(s2.rb.val, s2.ra.val)
                        s3 == [s2 EXCEPT !.ra = Bool(result)]
                    IN grunt_stack_arg_push(s3, s3.ra)

grunt_vm_not(st) ==
    LET s1 == PopRA(st)
    IN IF s1.rc # 0 THEN s1
       ELSE IF s1.ra.type # gt_bool THEN Ret(s1, GRUNT_ERROR_INVALIDARGUMENT)
       ELSE LET s2 == [s1 EXCEPT !.ra.val = IF @ # 0 THEN 0 ELSE 1]
            IN grunt_stack_arg_push(s2, s2.ra)

(***************************************************************************)
(* grunt_vm_control.c                                                      *)
(***************************************************************************)
\* Mutant: no forward-only test.
grunt_vm_call_any_target(st, p_literal) ==
    IF p_literal.type # gt_pc THEN Ret(st, GRUNT_ERROR_INVALIDLITERAL)
    ELSE LET s1 == [st EXCEPT !.ra = PC(st.pc)]
             s2 == grunt_stack_ctl_push(s1, s1.ra)
         IN IF s2.rc # 0 THEN s2
            ELSE [s2 EXCEPT !.pc = p_literal.val, !.rc = 0]

grunt_vm_call(st, p_literal) ==
    IF p_literal.type # gt_pc THEN Ret(st, GRUNT_ERROR_INVALIDLITERAL)
    ELSE IF p_literal.val < st.pc THEN Ret(st, GRUNT_ERROR_NOLOOPS)
    ELSE LET s1 == [st EXCEPT !.ra = PC(st.pc)]
             s2 == grunt_stack_ctl_push(s1, s1.ra)
         IN IF s2.rc # 0 THEN s2
            ELSE [s2 EXCEPT !.pc = p_literal.val, !.rc = 0]

\* Mutant: the popped value is read as a Boolean whatever its type.
grunt_vm_halt_any_type(st) ==
    LET s1 == PopRA(st)
    IN IF s1.rc # 0 THEN s1
       ELSE Ret(s1, IF s1.ra.type = gt_bool /\ s1.ra.val = 0
                    THEN GRUNT_HALT_FALSE ELSE GRUNT_HALT_TRUE)

grunt_vm_halt(st) ==
    LET s1 == PopRA(st)
    IN IF s1.rc # 0 THEN s1
       ELSE IF s1.ra.type # gt_bool THEN Ret(s1, GRUNT_ERROR_INVALIDARGUMENT)
       ELSE Ret(s1, IF s1.ra.val # 0 THEN GRUNT_HALT_TRUE
                    ELSE GRUNT_HALT_FALSE)

\* Mutant: a jump is taken without the test that keeps the pc from wrapping.
grunt_vm_jmpif_no_wrap_test(st, p_literal) ==
    IF p_literal.type # gt_pc THEN Ret(st, GRUNT_ERROR_INVALIDLITERAL)
    ELSE IF p_literal.val < 2 THEN Ret(st, GRUNT_ERROR_INVALIDLITERAL)
    ELSE LET s1 == PopRA(st)
         IN IF s1.rc # 0 THEN s1
            ELSE IF s1.ra.type # gt_bool
            THEN Ret(s1, GRUNT_ERROR_INVALIDARGUMENT)
            ELSE IF ~(s1.ra.val # 0) THEN Ret(s1, 0)
            ELSE [s1 EXCEPT !.pc = (@ + (p_literal.val - 1))
                                     % (UINT16_MAX + 1),
                            !.rc = 0]

grunt_vm_jmpif(st, p_literal) ==
    IF p_literal.type # gt_pc THEN Ret(st, GRUNT_ERROR_INVALIDLITERAL)
    ELSE IF p_literal.val < 2 THEN Ret(st, GRUNT_ERROR_INVALIDLITERAL)
    ELSE LET s1 == PopRA(st)
         IN IF s1.rc # 0 THEN s1
            ELSE IF s1.ra.type # gt_bool
            THEN Ret(s1, GRUNT_ERROR_INVALIDARGUMENT)
            ELSE IF ~(s1.ra.val # 0) THEN Ret(s1, 0)
            ELSE IF p_literal.val > (UINT16_MAX - s1.pc)
            THEN Ret(s1, GRUNT_ERROR_NOPROGRAM)
            ELSE [s1 EXCEPT !.pc = (@ + (p_literal.val - 1)) % (UINT16_MAX + 1),
                            !.rc = 0]

\* Mutant: the return address is popped and the pc is left where it is.
grunt_vm_return_keeps_pc(st) ==
    LET s1 == grunt_stack_ctl_pop(st)
    IN IF s1.rc # 0 THEN s1
       ELSE [s1 EXCEPT !.ra = s1.popped, !.rc = 0]

grunt_vm_return(st) ==
    LET s1 == grunt_stack_ctl_pop(st)
    IN IF s1.rc # 0 THEN s1
       ELSE [s1 EXCEPT !.ra = s1.popped, !.pc = s1.popped.val, !.rc = 0]

(***************************************************************************)
(* grunt_vm_io.c                                                           *)
(***************************************************************************)
\* Mutant: the first value popped is passed as event_id, the second as
\* event_type.
grunt_vm_flush_roles_swapped(st) ==
    LET s1 == PopRA(st)
    IN IF s1.rc # 0 THEN s1
       ELSE IF s1.ra.type # gt_num THEN Ret(s1, GRUNT_ERROR_INVALIDARGUMENT)
       ELSE LET s2 == PopRB(s1)
            IN IF s2.rc # 0 THEN s2
               ELSE IF s2.rb.type # gt_num
               THEN Ret(s2, GRUNT_ERROR_INVALIDARGUMENT)
               ELSE Ret(grunt_output_flush(s2, s2.rb.val, s2.ra.val), 0)

\* The first value popped is passed as event_type, the second as event_id.
grunt_vm_flush(st) ==
    LET s1 == PopRA(st)
    IN IF s1.rc # 0 THEN s1
       ELSE IF s1.ra.type # gt_num THEN Ret(s1, GRUNT_ERROR_INVALIDARGUMENT)
       ELSE LET s2 == PopRB(s1)
            IN IF s2.rc # 0 THEN s2
               ELSE IF s2.rb.type # gt_num
               THEN Ret(s2, GRUNT_ERROR_INVALIDARGUMENT)
               ELSE Ret(grunt_output_flush(s2, s2.ra.val, s2.rb.val), 0)

grunt_vm_input(st, n) ==
    IF (n # 4) /\ (n # 2) /\ (n # 1)
    THEN Ret(st, GRUNT_ERROR_INVALIDLITERAL)
    ELSE LET s1 == grunt_input_dequeue(st, n)
         IN IF s1.rc # 0 THEN s1
            ELSE grunt_stack_arg_push(s1, s1.ra)

grunt_vm_output(st) ==
    LET s1 == PopRA(st)
    IN IF s1.rc # 0 THEN s1
       ELSE CASE s1.ra.type = gt_bool ->
                   grunt_output_enqueue_boolean(s1, s1.ra.val # 0)
              [] s1.ra.type = gt_num ->
                   grunt_output_enqueue_number(s1, s1.ra.val)
              [] s1.ra.type = gt_str ->
                   grunt_output_enqueue_string(s1, s1.ra.val)
              [] OTHER -> Ret(s1, GRUNT_ERROR_INVALIDARGUMENT)

grunt_vm_rewind(st, reps) ==
    grunt_input_rewind(st, reps)

(***************************************************************************)
(* grunt_instruction_t and the macros of grunt.h that write programs.  An  *)
(* instruction reads either its repetition count or its literal.           *)
(***************************************************************************)
Instruction(op, rep, lit) == [op |-> op, rep |-> rep, lit |-> lit]

ADD == Instruction(GRUNT_OP_ADD, 0, ZeroValue)
AND(r) == Instruction(GRUNT_OP_AND, r, ZeroValue)
CALL(sub) == Instruction(GRUNT_OP_CALL, 0, PC(sub))
DUP(r) == Instruction(GRUNT_OP_DUP, r, ZeroValue)
EQ(r) == Instruction(GRUNT_OP_EQ, r, ZeroValue)
FLUSH == Instruction(GRUNT_OP_FLUSH, 0, ZeroValue)
GT == Instruction(GRUNT_OP_GT, 0, ZeroValue)
HALT == Instruction(GRUNT_OP_HALT, 0, ZeroValue)
INPUT(r) == Instruction(GRUNT_OP_INPUT, r, ZeroValue)
JMPIF(l) == Instruction(GRUNT_OP_JMPIF, 0, PC(l))
LT == Instruction(GRUNT_OP_LT, 0, ZeroValue)
NOT == Instruction(GRUNT_OP_NOT, 0, ZeroValue)
OR(r) == Instruction(GRUNT_OP_OR, r, ZeroValue)
OUTPUT == Instruction(GRUNT_OP_OUTPUT, 0, ZeroValue)
POP(r) == Instruction(GRUNT_OP_POP, r, ZeroValue)
PUSHB(tf) == Instruction(GRUNT_OP_PUSHB, 0, Bool(tf))
PUSHN(n) == Instruction(GRUNT_OP_PUSHN, 0, Num(U32(n)))
PUSHS(s) == Instruction(GRUNT_OP_PUSHS, 0, Str(s))
RETURN == Instruction(GRUNT_OP_RETURN, 0, ZeroValue)
REWIND(r) == Instruction(GRUNT_OP_REWIND, r, ZeroValue)
ROLL(r) == Instruction(GRUNT_OP_ROLL, r, ZeroValue)
SUB == Instruction(GRUNT_OP_SUB, 0, ZeroValue)

(***************************************************************************)
(* grunt.c                                                                 *)
(***************************************************************************)
\* Mutant: the program counter is not incremented before the dispatch.
grunt_vm_step_no_increment(st, p_i) ==
    LET s == st
    IN CASE p_i.op = GRUNT_OP_ADD -> grunt_vm_add_sub(s, TRUE)
         [] p_i.op = GRUNT_OP_AND -> grunt_vm_and_or(s, p_i.rep, TRUE)
         [] p_i.op = GRUNT_OP_CALL -> grunt_vm_call(s, p_i.lit)
         [] p_i.op = GRUNT_OP_DUP -> grunt_vm_dup(s, p_i.rep)
         [] p_i.op = GRUNT_OP_EQ -> grunt_vm_eq(s, p_i.rep)
         [] p_i.op = GRUNT_OP_FLUSH -> grunt_vm_flush(s)
         [] p_i.op = GRUNT_OP_GT -> grunt_vm_lt_gt(s, FALSE)
         [] p_i.op = GRUNT_OP_HALT -> grunt_vm_halt(s)
         [] p_i.op = GRUNT_OP_INPUT -> grunt_vm_input(s, p_i.rep)
         [] p_i.op = GRUNT_OP_JMPIF -> grunt_vm_jmpif(s, p_i.lit)
         [] p_i.op = GRUNT_OP_LT -> grunt_vm_lt_gt(s, TRUE)
         [] p_i.op = GRUNT_OP_NOT -> grunt_vm_not(s)
         [] p_i.op = GRUNT_OP_OUTPUT -> grunt_vm_output(s)
         [] p_i.op = GRUNT_OP_OR -> grunt_vm_and_or(s, p_i.rep, FALSE)
         [] p_i.op = GRUNT_OP_POP -> grunt_vm_pop(s, p_i.rep)
         [] p_i.op = GRUNT_OP_PUSHB -> grunt_vm_pushb(s, p_i.lit)
         [] p_i.op = GRUNT_OP_PUSHN -> grunt_vm_pushn(s, p_i.lit)
         [] p_i.op = GRUNT_OP_PUSHS -> grunt_vm_pushs(s, p_i.lit)
         [] p_i.op = GRUNT_OP_RETURN -> grunt_vm_return(s)
         [] p_i.op = GRUNT_OP_REWIND -> grunt_vm_rewind(s, p_i.rep)
         [] p_i.op = GRUNT_OP_ROLL -> grunt_vm_roll(s, p_i.rep)
         [] p_i.op = GRUNT_OP_SUB -> grunt_vm_add_sub(s, FALSE)
         [] OTHER -> Ret(s, GRUNT_ERROR_INVALIDOPCODE)

grunt_vm_step(st, p_i) ==
    LET s == [st EXCEPT !.pc = (@ + 1) % (GRUNT_PC_MAX + 1)]
    IN CASE p_i.op = GRUNT_OP_ADD -> grunt_vm_add_sub(s, TRUE)
         [] p_i.op = GRUNT_OP_AND -> grunt_vm_and_or(s, p_i.rep, TRUE)
         [] p_i.op = GRUNT_OP_CALL -> grunt_vm_call(s, p_i.lit)
         [] p_i.op = GRUNT_OP_DUP -> grunt_vm_dup(s, p_i.rep)
         [] p_i.op = GRUNT_OP_EQ -> grunt_vm_eq(s, p_i.rep)
         [] p_i.op = GRUNT_OP_FLUSH -> grunt_vm_flush(s)
         [] p_i.op = GRUNT_OP_GT -> grunt_vm_lt_gt(s, FALSE)
         [] p_i.op = GRUNT_OP_HALT -> grunt_vm_halt(s)
         [] p_i.op = GRUNT_OP_INPUT -> grunt_vm_input(s, p_i.rep)
         [] p_i.op = GRUNT_OP_JMPIF -> grunt_vm_jmpif(s, p_i.lit)
         [] p_i.op = GRUNT_OP_LT -> grunt_vm_lt_gt(s, TRUE)
         [] p_i.op = GRUNT_OP_NOT -> grunt_vm_not(s)
         [] p_i.op = GRUNT_OP_OUTPUT -> grunt_vm_output(s)
         [] p_i.op = GRUNT_OP_OR -> grunt_vm_and_or(s, p_i.rep, FALSE)
         [] p_i.op = GRUNT_OP_POP -> grunt_vm_pop(s, p_i.rep)
         [] p_i.op = GRUNT_OP_PUSHB -> grunt_vm_pushb(s, p_i.lit)
         [] p_i.op = GRUNT_OP_PUSHN -> grunt_vm_pushn(s, p_i.lit)
         [] p_i.op = GRUNT_OP_PUSHS -> grunt_vm_pushs(s, p_i.lit)
         [] p_i.op = GRUNT_OP_RETURN -> grunt_vm_return(s)
         [] p_i.op = GRUNT_OP_REWIND -> grunt_vm_rewind(s, p_i.rep)
         [] p_i.op = GRUNT_OP_ROLL -> grunt_vm_roll(s, p_i.rep)
         [] p_i.op = GRUNT_OP_SUB -> grunt_vm_add_sub(s, FALSE)
         [] OTHER -> Ret(s, GRUNT_ERROR_INVALIDOPCODE)

\* The line grunt_vm_error prints: the status, the program counter and the
\* message chosen for the status.
grunt_vm_error(a_status, pc) ==
    [status |-> a_status, pc |-> pc,
     msg |-> CASE a_status = GRUNT_ERROR_INTERPRETERBUG -> "interpreter bug"
               [] a_status = GRUNT_ERROR_INVALIDARGUMENT -> "invalid argument"
               [] a_status = GRUNT_ERROR_INVALIDLITERAL -> "invalid literal"
               [] a_status = GRUNT_ERROR_INVALIDOPCODE -> "invalid opcode"
               [] a_status = GRUNT_ERROR_NOPROGRAM -> "no program"
               [] a_status = GRUNT_ERROR_NOLOOPS -> "no loops"
               [] a_status = GRUNT_ERROR_OUTOFBOUNDS -> "out of bounds"
               [] OTHER -> "unknown error"]

\* Mutant: the program counter is left where the last run took it.
grunt_vm_init_keeps_pc(st) ==
    st

grunt_vm_init(st) ==
    [st EXCEPT !.pc = 0]

(***************************************************************************)
(* The machine record of the current state, and the state a machine        *)
(* record gives.                                                           *)
(***************************************************************************)
Machine ==
    [stack |-> g_stack, argc |-> g_argument_count, ctlc |-> g_control_count,
     inq |-> g_input_queue.bytes, inq_null |-> g_input_queue.null,
     inq_size |-> g_input_queue_size, head |-> g_head_index,
     strings |-> g_string_table, num_strings |-> g_num_strings,
     outq |-> g_output_queue, tail |-> g_tail_index,
     ra |-> g_ra, rb |-> g_rb, pc |-> g_pc,
     events |-> events, payload |-> payload, host |-> host,
     rc |-> 0, popped |-> ZeroValue, flag |-> TRUE, trap |-> FALSE]

Becomes(st) ==
    /\ g_stack' = st.stack
    /\ g_argument_count' = st.argc
    /\ g_control_count' = st.ctlc
    /\ g_input_queue' = [null |-> st.inq_null, bytes |-> st.inq]
    /\ g_input_queue_size' = st.inq_size
    /\ g_head_index' = st.head
    /\ g_string_table' = st.strings
    /\ g_num_strings' = st.num_strings
    /\ g_output_queue' = st.outq
    /\ g_tail_index' = st.tail
    /\ g_ra' = st.ra
    /\ g_rb' = st.rb
    /\ g_pc' = st.pc
    /\ events' = st.events
    /\ payload' = st.payload

(***************************************************************************)
(* The inputs GRUNT_Run is called with.  A family names the programs,      *)
(* images, string tables and builds one specification draws from: a        *)
(* program is one of the family's fixed openings followed by up to a       *)
(* bounded number of instructions drawn freely from the family's           *)
(* instruction set.                                                        *)
(***************************************************************************)
MaxFree == 3          \* free instructions after the opening
MaxFreeControl == 5   \* the same, for the programs of calls and jumps
MaxImage == 5         \* bytes of the longest image
MaxExecuted == 40
MaxValidatorSteps == 2000
MaxRuns == 3          \* calls of VSC_table_validate in one behaviour     \* the step counter stops counting here

\* Byte i (from 1) of every image; an image is a prefix of these bytes.
ImageByte(i) == (i * 37 + 120) % 256
Image(n) == [i \in 1 .. n |-> ImageByte(i)]

\* Openings that fill the argument stack, leaving  room  slots free.
FillArgs(room) ==
    <<PUSHN(1), DUP(1), DUP(2), DUP(4), DUP(8),
      DUP((GRUNT_STACK_SIZE - room) - 16)>>

\* String tables: "A"; and "", "x" and a string half as long as the
\* payload the output queue holds when one more byte still fits.
LongString == [i \in 1 .. ((OUTPUT_QUEUE_SIZE - 2) \div 2) |-> 76]
OneString == << <<65>> >>
OutputStrings == << <<>>, <<120>>, LongString >>

\* A string table with a string too long for a grunt_rep_t: "x", and a
\* string of GRUNT_REP_MAX + 1 letters.
LongStrings ==
    << <<120>>, [i \in 1 .. (GRUNT_REP_MAX + 1) |-> 76] >>

\* An opening that leaves room for one byte in the output queue.
FillOutput == <<PUSHS(2), OUTPUT, PUSHS(2), OUTPUT>>

(***************************************************************************)
(* The validation program of the VSC app: its strings, the addresses of    *)
(* its subroutines and its instructions.                                   *)
(***************************************************************************)
VS_PARM_UNUSED == 0
VS_PARM_APE == 1
VS_PARM_BAT == 2
VS_PARM_CAT == 4
VS_PARM_DOG == 8
VS_PARM_NORTH == 16
VS_PARM_SOUTH == 32
VS_PARM_EAST == 64
VS_PARM_WEST == 128
VS_PARM_ANIMAL_MIN == 16
VS_PARM_ANIMAL_MAX == 4096
VS_PARM_DIRECTION_MIN == 65536
VS_PARM_DIRECTION_MAX == 16777216
VS_VALIDATION_INF_EID == 8
VS_TBL_ZERO_ERR_EID == 8193
VS_TBL_PARM_ERR_EID == 8194
VS_TBL_PAD_ERR_EID == 8196
VS_TBL_LBND_ERR_EID == 8200
VS_TBL_HBND_ERR_EID == 8208
VS_TBL_ORDER_ERR_EID == 8224
VS_TBL_EXTRA_ERR_EID == 8256
VS_TBL_REDEF_ERR_EID == 8320
\* The event types of the event service, as cFE numbers them.
CFE_EVS_EventType_INFORMATION == 2
CFE_EVS_EventType_ERROR == 3

\* vsvf_strings, each string as its bytes.
vsvf_strings ==
    << <<84, 97, 98, 108, 101, 32, 105, 109, 97, 103, 101, 32, 101, 110, 116, 114, 105, 101, 115, 58, 32>>,   \* 0 "Table image entries: "
       <<32, 118, 97, 108, 105, 100, 44, 32>>,   \* 1 " valid, "
       <<32, 105, 110, 118, 97, 108, 105, 100, 44, 32>>,   \* 2 " invalid, "
       <<32, 117, 110, 117, 115, 101, 100>>,   \* 3 " unused"
       <<84, 97, 98, 108, 101, 32, 101, 110, 116, 114, 121, 32>>,   \* 4 "Table entry "
       <<32, 112, 97, 114, 109, 32>>,   \* 5 " parm "
       <<32, 110, 111, 116, 32, 122, 101, 114, 111, 101, 100>>,   \* 6 " not zeroed"
       <<32, 105, 110, 118, 97, 108, 105, 100, 32, 80, 97, 114, 109, 32, 73, 68>>,   \* 7 " invalid Parm ID"
       <<32, 112, 97, 100, 100, 105, 110, 103, 32, 110, 111, 116, 32, 122, 101, 114, 111, 101, 100>>,   \* 8 " padding not zeroed"
       <<32, 105, 110, 118, 97, 108, 105, 100, 32, 108, 111, 119, 32, 98, 111, 117, 110, 100>>,   \* 9 " invalid low bound"
       <<32, 105, 110, 118, 97, 108, 105, 100, 32, 104, 105, 103, 104, 32, 98, 111, 117, 110, 100>>,   \* 10 " invalid high bound"
       <<32, 105, 110, 118, 97, 108, 105, 100, 32, 98, 111, 117, 110, 100, 32, 111, 114, 100, 101, 114>>,   \* 11 " invalid bound order"
       <<32, 102, 111, 108, 108, 111, 119, 115, 32, 97, 110, 32, 117, 110, 117, 115, 101, 100, 32, 101, 110, 116, 114, 121>>,   \* 12 " follows an unused entry"
       <<32, 114, 101, 100, 101, 102, 105, 110, 101, 115, 32, 101, 97, 114, 108, 105, 101, 114, 32, 101, 110, 116, 114, 121>>,   \* 13 " redefines earlier entry"
       <<85, 110, 117, 115, 101, 100>>,   \* 14 "Unused"
       <<65, 112, 101>>,   \* 15 "Ape"
       <<66, 97, 116>>,   \* 16 "Bat"
       <<67, 97, 116>>,   \* 17 "Cat"
       <<68, 111, 103>>,   \* 18 "Dog"
       <<78, 111, 114, 116, 104>>,   \* 19 "North"
       <<83, 111, 117, 116, 104>>,   \* 20 "South"
       <<69, 97, 115, 116>>,   \* 21 "East"
       <<87, 101, 115, 116>>,   \* 22 "West"
       <<85, 110, 107, 110, 111, 119, 110>> >>   \* 23 "Unknown"
VSVF_NUM_STRINGS == 24

MAIN == 0
MAIN_LOC == 33
VALIDATE_ENTRY == MAIN + MAIN_LOC
VALIDATE_ENTRY_LOC == 52
IS_UNUSED == VALIDATE_ENTRY + VALIDATE_ENTRY_LOC
IS_UNUSED_LOC == 3
IS_ANIMAL == IS_UNUSED + IS_UNUSED_LOC
IS_ANIMAL_LOC == 16
IS_DIRECTION == IS_ANIMAL + IS_ANIMAL_LOC
IS_DIRECTION_LOC == 16
VALIDATE_UNUSED == IS_DIRECTION + IS_DIRECTION_LOC
VALIDATE_UNUSED_LOC == 18
VALIDATE_INUSE == VALIDATE_UNUSED + VALIDATE_UNUSED_LOC
VALIDATE_INUSE_LOC == 26
VALIDATE_PAD == VALIDATE_INUSE + VALIDATE_INUSE_LOC
VALIDATE_PAD_LOC == 17
VALIDATE_BOUNDS == VALIDATE_PAD + VALIDATE_PAD_LOC
VALIDATE_BOUNDS_LOC == 26
VALIDATE_RANGE == VALIDATE_BOUNDS + VALIDATE_BOUNDS_LOC
VALIDATE_RANGE_LOC == 15
VALIDATE_ORDER == VALIDATE_RANGE + VALIDATE_RANGE_LOC
VALIDATE_ORDER_LOC == 13
VALIDATE_EXTRA == VALIDATE_ORDER + VALIDATE_ORDER_LOC
VALIDATE_EXTRA_LOC == 15
VALIDATE_REDEF == VALIDATE_EXTRA + VALIDATE_EXTRA_LOC
VALIDATE_REDEF_LOC == 26
HANDLE_PARMERR == VALIDATE_REDEF + VALIDATE_REDEF_LOC
HANDLE_PARMERR_LOC == 10
INC_UNUSED == HANDLE_PARMERR + HANDLE_PARMERR_LOC
INC_UNUSED_LOC == 6
INC_VALID == INC_UNUSED + INC_UNUSED_LOC
INC_VALID_LOC == 5
COMPUTE_INVALID == INC_VALID + INC_VALID_LOC
COMPUTE_INVALID_LOC == 7
COMPUTE_RESULT == COMPUTE_INVALID + COMPUTE_INVALID_LOC
COMPUTE_RESULT_LOC == 7
EMIT_INFO == COMPUTE_RESULT + COMPUTE_RESULT_LOC
EMIT_INFO_LOC == 15
EMIT_ERROR_PARMERR == EMIT_INFO + EMIT_INFO_LOC
EMIT_ERROR_PARMERR_LOC == 9
EMIT_ERROR == EMIT_ERROR_PARMERR + EMIT_ERROR_PARMERR_LOC
EMIT_ERROR_LOC == 11
PARM_TO_STR == EMIT_ERROR + EMIT_ERROR_LOC
PARM_TO_STR_LOC == 75
VSVF_NUM_INSTRUCTIONS == PARM_TO_STR + PARM_TO_STR_LOC

\* MAIN, at address MAIN.
vsvf_MAIN ==
    <<PUSHN(0), PUSHN(0), PUSHN(VS_PARM_UNUSED), PUSHN(VS_PARM_UNUSED),
      PUSHN(VS_PARM_UNUSED), PUSHN(1), CALL(VALIDATE_ENTRY), DUP(1),
      ROLL(4), DUP(1), ROLL(4), PUSHN(VS_PARM_UNUSED),
      PUSHN(VS_PARM_UNUSED), PUSHN(2), CALL(VALIDATE_ENTRY), DUP(1),
      ROLL(5), ROLL(3), ROLL(4), ROLL(4), PUSHN(VS_PARM_UNUSED), PUSHN(3),
      CALL(VALIDATE_ENTRY), ROLL(3), ROLL(5), ROLL(5), PUSHN(4),
      CALL(VALIDATE_ENTRY), POP(1), CALL(COMPUTE_INVALID),
      CALL(COMPUTE_RESULT), CALL(EMIT_INFO), HALT>>

\* VALIDATE_ENTRY, at address VALIDATE_ENTRY.
vsvf_VALIDATE_ENTRY ==
    <<INPUT(1), DUP(1), ROLL(6), DUP(1), CALL(IS_UNUSED), NOT, JMPIF(9),
      ROLL(5), ROLL(5), POP(3), CALL(VALIDATE_UNUSED), JMPIF(2), RETURN,
      CALL(INC_UNUSED), RETURN, ROLL(8), ROLL(8), ROLL(8), ROLL(8), ROLL(8),
      ROLL(8), ROLL(8), DUP(1), ROLL(9), ROLL(3), DUP(1), CALL(IS_ANIMAL),
      NOT, JMPIF(8), PUSHN(VS_PARM_ANIMAL_MAX), PUSHN(VS_PARM_ANIMAL_MIN),
      CALL(VALIDATE_INUSE), JMPIF(2), RETURN, CALL(INC_VALID), RETURN,
      DUP(1), CALL(IS_DIRECTION), NOT, JMPIF(8),
      PUSHN(VS_PARM_DIRECTION_MAX), PUSHN(VS_PARM_DIRECTION_MIN),
      CALL(VALIDATE_INUSE), JMPIF(2), RETURN, CALL(INC_VALID), RETURN,
      POP(1), ROLL(5), POP(4), CALL(HANDLE_PARMERR), RETURN>>

\* IS_UNUSED, at address IS_UNUSED.
vsvf_IS_UNUSED ==
    <<PUSHN(VS_PARM_UNUSED), EQ(2), RETURN>>

\* Mutant: the parm id 3, which has no name, is taken for an animal in the
\* place of Bat.
vsvf_IS_ANIMAL_takes_three ==
    <<DUP(1), PUSHN(VS_PARM_APE), EQ(2), ROLL(2), DUP(1),
      PUSHN(3), EQ(2), ROLL(2), DUP(1), PUSHN(VS_PARM_CAT), EQ(2),
      ROLL(2), PUSHN(VS_PARM_DOG), EQ(2), OR(4), RETURN>>

\* IS_ANIMAL, at address IS_ANIMAL.
vsvf_IS_ANIMAL ==
    <<DUP(1), PUSHN(VS_PARM_APE), EQ(2), ROLL(2), DUP(1),
      PUSHN(VS_PARM_BAT), EQ(2), ROLL(2), DUP(1), PUSHN(VS_PARM_CAT), EQ(2),
      ROLL(2), PUSHN(VS_PARM_DOG), EQ(2), OR(4), RETURN>>

\* IS_DIRECTION, at address IS_DIRECTION.
vsvf_IS_DIRECTION ==
    <<DUP(1), PUSHN(VS_PARM_NORTH), EQ(2), ROLL(2), DUP(1),
      PUSHN(VS_PARM_SOUTH), EQ(2), ROLL(2), DUP(1), PUSHN(VS_PARM_EAST),
      EQ(2), ROLL(2), PUSHN(VS_PARM_WEST), EQ(2), OR(4), RETURN>>

\* Mutant: an entry that is not zeroed is reported and then taken for a
\* proper unused entry.
vsvf_VALIDATE_UNUSED_counts_not_zeroed ==
    <<INPUT(1), INPUT(2), INPUT(4), INPUT(4), PUSHN(0), EQ(5), JMPIF(9),
      ROLL(2), PUSHN(VS_TBL_ZERO_ERR_EID), ROLL(3), PUSHS(6), ROLL(3),
      CALL(EMIT_ERROR), PUSHB(TRUE), RETURN, POP(2), PUSHB(TRUE), RETURN>>

\* VALIDATE_UNUSED, at address VALIDATE_UNUSED.
vsvf_VALIDATE_UNUSED ==
    <<INPUT(1), INPUT(2), INPUT(4), INPUT(4), PUSHN(0), EQ(5), JMPIF(9),
      ROLL(2), PUSHN(VS_TBL_ZERO_ERR_EID), ROLL(3), PUSHS(6), ROLL(3),
      CALL(EMIT_ERROR), PUSHB(FALSE), RETURN, POP(2), PUSHB(TRUE), RETURN>>

\* VALIDATE_INUSE, at address VALIDATE_INUSE.
vsvf_VALIDATE_INUSE ==
    <<ROLL(8), ROLL(8), DUP(2), CALL(VALIDATE_PAD), ROLL(9), DUP(2),
      ROLL(10), ROLL(10), ROLL(10), ROLL(10), ROLL(10), ROLL(10), ROLL(10),
      ROLL(10), CALL(VALIDATE_BOUNDS), ROLL(7), DUP(2), ROLL(5), ROLL(5),
      ROLL(3), ROLL(3), CALL(VALIDATE_EXTRA), ROLL(7), CALL(VALIDATE_REDEF),
      AND(4), RETURN>>

\* VALIDATE_PAD, at address VALIDATE_PAD.
vsvf_VALIDATE_PAD ==
    <<INPUT(1), INPUT(2), PUSHN(0), EQ(3), NOT, JMPIF(4), POP(2),
      PUSHB(TRUE), RETURN, ROLL(2), PUSHN(VS_TBL_PAD_ERR_EID), ROLL(3),
      PUSHS(8), ROLL(3), CALL(EMIT_ERROR), PUSHB(FALSE), RETURN>>

\* VALIDATE_BOUNDS, at address VALIDATE_BOUNDS.
vsvf_VALIDATE_BOUNDS ==
    <<DUP(4), INPUT(4), DUP(1), ROLL(10), PUSHN(VS_TBL_LBND_ERR_EID),
      ROLL(6), PUSHS(9), ROLL(6), CALL(VALIDATE_RANGE), ROLL(6), DUP(4),
      INPUT(4), DUP(1), ROLL(11), PUSHN(VS_TBL_HBND_ERR_EID), ROLL(6),
      PUSHS(10), ROLL(6), CALL(VALIDATE_RANGE), ROLL(8), POP(2), ROLL(4),
      ROLL(4), CALL(VALIDATE_ORDER), AND(3), RETURN>>

\* Mutant: the bound is compared with the least value by GT, not LT.
vsvf_VALIDATE_RANGE_above_min ==
    <<DUP(1), ROLL(4), ROLL(2), GT, ROLL(3), GT, OR(2), JMPIF(4), POP(4),
      PUSHB(TRUE), RETURN, ROLL(2), CALL(EMIT_ERROR), PUSHB(FALSE), RETURN>>

\* VALIDATE_RANGE, at address VALIDATE_RANGE.
vsvf_VALIDATE_RANGE ==
    <<DUP(1), ROLL(4), ROLL(2), LT, ROLL(3), GT, OR(2), JMPIF(4), POP(4),
      PUSHB(TRUE), RETURN, ROLL(2), CALL(EMIT_ERROR), PUSHB(FALSE), RETURN>>

\* Mutant: the fault of the order is sent under the id of the low bound.
vsvf_VALIDATE_ORDER_low_id ==
    <<LT, JMPIF(4), POP(2), PUSHB(TRUE), RETURN, ROLL(2), PUSHS(11),
      ROLL(3), PUSHN(VS_TBL_LBND_ERR_EID), ROLL(4), CALL(EMIT_ERROR),
      PUSHB(FALSE), RETURN>>

\* VAILIDATE_ORDER, at address VALIDATE_ORDER.
vsvf_VALIDATE_ORDER ==
    <<LT, JMPIF(4), POP(2), PUSHB(TRUE), RETURN, ROLL(2), PUSHS(11),
      ROLL(3), PUSHN(VS_TBL_ORDER_ERR_EID), ROLL(4), CALL(EMIT_ERROR),
      PUSHB(FALSE), RETURN>>

\* Mutant: an entry in use is in order after exactly one unused entry.
vsvf_VALIDATE_EXTRA_one_unused ==
    <<PUSHN(1), EQ(2), NOT, JMPIF(4), POP(2), PUSHB(TRUE), RETURN, ROLL(2),
      PUSHS(12), ROLL(3), PUSHN(VS_TBL_EXTRA_ERR_EID), ROLL(4),
      CALL(EMIT_ERROR), PUSHB(FALSE), RETURN>>

\* VALIDATE_EXTRA, at address VALIDATE_EXTRA.
vsvf_VALIDATE_EXTRA ==
    <<PUSHN(0), EQ(2), NOT, JMPIF(4), POP(2), PUSHB(TRUE), RETURN, ROLL(2),
      PUSHS(12), ROLL(3), PUSHN(VS_TBL_EXTRA_ERR_EID), ROLL(4),
      CALL(EMIT_ERROR), PUSHB(FALSE), RETURN>>

\* Mutant: a parm id is redefined when all three saved ids equal it.
vsvf_VALIDATE_REDEF_all_three ==
    <<DUP(1), ROLL(5), DUP(1), ROLL(4), DUP(1), ROLL(3), ROLL(8), ROLL(8),
      EQ(2), ROLL(5), EQ(2), ROLL(3), EQ(2), AND(3), JMPIF(4), POP(2),
      PUSHB(TRUE), RETURN, ROLL(2), PUSHS(13), ROLL(3),
      PUSHN(VS_TBL_REDEF_ERR_EID), ROLL(4), CALL(EMIT_ERROR), PUSHB(FALSE),
      RETURN>>

\* VALIDATE_REDEF, at address VALIDATE_REDEF.
vsvf_VALIDATE_REDEF ==
    <<DUP(1), ROLL(5), DUP(1), ROLL(4), DUP(1), ROLL(3), ROLL(8), ROLL(8),
      EQ(2), ROLL(5), EQ(2), ROLL(3), EQ(2), OR(3), JMPIF(4), POP(2),
      PUSHB(TRUE), RETURN, ROLL(2), PUSHS(13), ROLL(3),
      PUSHN(VS_TBL_REDEF_ERR_EID), ROLL(4), CALL(EMIT_ERROR), PUSHB(FALSE),
      RETURN>>

\* Mutant: of the high bound of an entry of no parm id two bytes are read.
vsvf_HANDLE_PARMERR_half_bound ==
    <<INPUT(1), POP(1), INPUT(2), POP(1), INPUT(4), POP(1), INPUT(2),
      POP(1), CALL(EMIT_ERROR_PARMERR), RETURN>>

\* HANDLE_PARMERR, at address HANDLE_PARMERR.
vsvf_HANDLE_PARMERR ==
    <<INPUT(1), POP(1), INPUT(2), POP(1), INPUT(4), POP(1), INPUT(4),
      POP(1), CALL(EMIT_ERROR_PARMERR), RETURN>>

\* INC_UNUSED, at address INC_UNUSED.
vsvf_INC_UNUSED ==
    <<ROLL(3), ROLL(3), PUSHN(1), ADD, ROLL(3), RETURN>>

\* INC_VALID, at address INC_VALID.
vsvf_INC_VALID ==
    <<ROLL(2), PUSHN(1), ADD, ROLL(2), RETURN>>

\* Mutant: the invalid entries are counted as if the table had three.
vsvf_COMPUTE_INVALID_of_three ==
    <<DUP(2), ADD, PUSHN(3), ROLL(2), SUB, ROLL(2), RETURN>>

\* COMPUTE_INVALID, at address COMPUTE_INVALID.
vsvf_COMPUTE_INVALID ==
    <<DUP(2), ADD, PUSHN(4), ROLL(2), SUB, ROLL(2), RETURN>>

\* COMPUTE_RESULT, at address COMPUTE_RESULT.
vsvf_COMPUTE_RESULT ==
    <<ROLL(2), DUP(1), PUSHN(0), EQ(2), ROLL(4), ROLL(2), RETURN>>

\* EMIT_INFO, at address EMIT_INFO.
vsvf_EMIT_INFO ==
    <<PUSHS(0), OUTPUT, OUTPUT, PUSHS(1), OUTPUT, OUTPUT, PUSHS(2), OUTPUT,
      OUTPUT, PUSHS(3), OUTPUT, PUSHN(VS_VALIDATION_INF_EID),
      PUSHN(CFE_EVS_EventType_INFORMATION), FLUSH, RETURN>>

\* EMIT_ERROR_PARMERR, at address EMIT_ERROR_PARMERR.
vsvf_EMIT_ERROR_PARMERR ==
    <<PUSHS(4), OUTPUT, OUTPUT, PUSHS(7), OUTPUT,
      PUSHN(VS_TBL_PARM_ERR_EID), PUSHN(CFE_EVS_EventType_ERROR), FLUSH,
      RETURN>>

\* Mutant: the name of the parm id is written without " parm " before it.
vsvf_EMIT_ERROR_no_parm_word ==
    <<PUSHS(4), OUTPUT, OUTPUT, PUSHS(14), POP(1), CALL(PARM_TO_STR), OUTPUT,
      OUTPUT, PUSHN(CFE_EVS_EventType_ERROR), FLUSH, RETURN>>

\* EMIT_ERROR, at address EMIT_ERROR.
vsvf_EMIT_ERROR ==
    <<PUSHS(4), OUTPUT, OUTPUT, PUSHS(5), OUTPUT, CALL(PARM_TO_STR), OUTPUT,
      OUTPUT, PUSHN(CFE_EVS_EventType_ERROR), FLUSH, RETURN>>

\* PARM_TO_STR, at address PARM_TO_STR.
vsvf_PARM_TO_STR ==
    <<DUP(1), PUSHN(VS_PARM_UNUSED), EQ(2), NOT, JMPIF(4), POP(1),
      PUSHS(14), RETURN, DUP(1), PUSHN(VS_PARM_APE), EQ(2), NOT, JMPIF(4),
      POP(1), PUSHS(15), RETURN, DUP(1), PUSHN(VS_PARM_BAT), EQ(2), NOT,
      JMPIF(4), POP(1), PUSHS(16), RETURN, DUP(1), PUSHN(VS_PARM_CAT),
      EQ(2), NOT, JMPIF(4), POP(1), PUSHS(17), RETURN, DUP(1),
      PUSHN(VS_PARM_DOG), EQ(2), NOT, JMPIF(4), POP(1), PUSHS(18), RETURN,
      DUP(1), PUSHN(VS_PARM_NORTH), EQ(2), NOT, JMPIF(4), POP(1), PUSHS(19),
      RETURN, DUP(1), PUSHN(VS_PARM_SOUTH), EQ(2), NOT, JMPIF(4), POP(1),
      PUSHS(20), RETURN, DUP(1), PUSHN(VS_PARM_EAST), EQ(2), NOT, JMPIF(4),
      POP(1), PUSHS(21), RETURN, DUP(1), PUSHN(VS_PARM_WEST), EQ(2), NOT,
      JMPIF(4), POP(1), PUSHS(22), RETURN, POP(1), PUSHS(23), RETURN>>

\* vsvf_program: the subroutines in the order of their addresses.
vsvf_program ==
    vsvf_MAIN \o vsvf_VALIDATE_ENTRY \o vsvf_IS_UNUSED \o vsvf_IS_ANIMAL \o
    vsvf_IS_DIRECTION \o vsvf_VALIDATE_UNUSED \o vsvf_VALIDATE_INUSE \o
    vsvf_VALIDATE_PAD \o vsvf_VALIDATE_BOUNDS \o vsvf_VALIDATE_RANGE \o
    vsvf_VALIDATE_ORDER \o vsvf_VALIDATE_EXTRA \o vsvf_VALIDATE_REDEF \o
    vsvf_HANDLE_PARMERR \o vsvf_INC_UNUSED \o vsvf_INC_VALID \o
    vsvf_COMPUTE_INVALID \o vsvf_COMPUTE_RESULT \o vsvf_EMIT_INFO \o
    vsvf_EMIT_ERROR_PARMERR \o vsvf_EMIT_ERROR \o vsvf_PARM_TO_STR

\* A table entry as vs_entry_t lays it out on a little-endian host: the
\* parm id, three bytes of padding, the low bound and the high bound.
Bytes4(n) == <<n % 256, (n \div 256) % 256, (n \div 65536) % 256,
               n \div 16777216>>
vs_entry(parm_id, pad, bound_low, bound_high) ==
    <<parm_id>> \o pad \o Bytes4(bound_low) \o Bytes4(bound_high)

\* The entries tried at place k of a table image: an unused entry, a valid
\* entry whose parm id differs from place to place, the valid entry of
\* place 1 again, and an entry whose parm id is none.
ValidEntry(k) ==
    CASE k = 1 -> vs_entry(VS_PARM_APE, <<0, 0, 0>>,
                           VS_PARM_ANIMAL_MIN, VS_PARM_ANIMAL_MAX)
      [] k = 2 -> vs_entry(VS_PARM_DOG, <<0, 0, 0>>, 17, 17)
      [] k = 3 -> vs_entry(VS_PARM_NORTH, <<0, 0, 0>>,
                           VS_PARM_DIRECTION_MIN, VS_PARM_DIRECTION_MAX)
      [] k = 4 -> vs_entry(VS_PARM_WEST, <<0, 0, 0>>, 65537, 16777215)
EntriesAt(k) ==
    {vs_entry(VS_PARM_UNUSED, <<0, 0, 0>>, 0, 0),
     ValidEntry(k),
     ValidEntry(1),
     vs_entry(3, <<0, 0, 0>>, 0, 0)}
\* Images with every fault of an entry: bounds out of range and out of
\* order, padding not zeroed, an unused entry not zeroed, a parm id used
\* twice, and an entry in use after an unused one.
FaultyImages ==
    {vs_entry(VS_PARM_APE, <<0, 0, 0>>, 15, 4097)
       \o vs_entry(VS_PARM_APE, <<0, 1, 0>>, 32, 16)
       \o vs_entry(VS_PARM_UNUSED, <<0, 0, 1>>, 0, 1)
       \o vs_entry(VS_PARM_EAST, <<1, 0, 0>>, 5, 16777217),
     ValidEntry(1) \o ValidEntry(1) \o ValidEntry(3) \o ValidEntry(3)}
TableImages ==
    {e1 \o e2 \o e3 \o e4 : e1 \in EntriesAt(1), e2 \in EntriesAt(2),
                            e3 \in EntriesAt(3), e4 \in EntriesAt(4)}
    \cup FaultyImages

\* Entries for the checks of one entry.  An unused entry, entries that
\* begin with VS_PARM_UNUSED and are not zeroed, entries whose parm id is
\* none, and, for a parm id and the range of its class, entries with
\* padding zeroed or not and each bound at, below and above the ends of
\* the range.
UnusedEntry == vs_entry(VS_PARM_UNUSED, <<0, 0, 0>>, 0, 0)
Pads == {<<0, 0, 0>>, <<1, 0, 0>>, <<0, 1, 0>>, <<0, 0, 255>>}
NotZeroedEntries ==
    {vs_entry(VS_PARM_UNUSED, pad, low, high) :
       pad \in {<<0, 0, 0>>, <<0, 0, 255>>}, low \in {0, 16777216},
       high \in {0, 15}} \ {UnusedEntry}
NoParmEntries ==
    {vs_entry(id, pad, low, high) :
       id \in {3, VS_PARM_DOG + VS_PARM_WEST, 255},
       pad \in {<<0, 0, 0>>, <<0, 0, 255>>}, low \in {0, 16},
       high \in {0, 15}}
InUseEntries(parm_id, min, max) ==
    {vs_entry(parm_id, pad, low, high) :
       pad \in Pads, low \in {min - 1, min, max, max + 1},
       high \in {min - 1, min, max, max + 1}}
\* Images with one such entry, in the first place or after an unused one,
\* and images with an entry that is not zeroed after one of no parm id.
OneEntryImages ==
    {e \o UnusedEntry \o UnusedEntry \o UnusedEntry :
       e \in InUseEntries(VS_PARM_CAT, VS_PARM_ANIMAL_MIN,
                          VS_PARM_ANIMAL_MAX)
              \cup InUseEntries(VS_PARM_SOUTH, VS_PARM_DIRECTION_MIN,
                                VS_PARM_DIRECTION_MAX)
              \cup NotZeroedEntries \cup NoParmEntries}
    \cup {UnusedEntry \o e \o UnusedEntry \o UnusedEntry :
            e \in NotZeroedEntries \cup NoParmEntries}
    \cup {vs_entry(255, <<0, 0, 255>>, 16, 15) \o e \o UnusedEntry
            \o UnusedEntry : e \in NotZeroedEntries}
\* Images for what an entry owes to the entries before it: two places
\* that are unused, not zeroed, of no parm id, a valid Dog or a Dog with
\* padding, a third that is unused or a Dog, and then a valid Dog, a Dog
\* out of range or a valid Cat.
EarlierEntries ==
    {UnusedEntry,
     vs_entry(VS_PARM_UNUSED, <<0, 0, 0>>, 0, 1),
     vs_entry(3, <<0, 0, 0>>, 0, 0),
     vs_entry(VS_PARM_DOG, <<0, 0, 0>>, 17, 18),
     vs_entry(VS_PARM_DOG, <<0, 1, 0>>, 17, 18)}
LaterEntries ==
    {vs_entry(VS_PARM_DOG, <<0, 0, 0>>, 17, 18),
     vs_entry(VS_PARM_DOG, <<0, 0, 0>>, 4097, 15),
     vs_entry(VS_PARM_CAT, <<0, 0, 0>>, 16, 16)}
LaterEntryImages ==
    {e1 \o e2 \o e3 \o e4 :
       e1 \in EarlierEntries, e2 \in EarlierEntries,
       e3 \in {UnusedEntry, vs_entry(VS_PARM_DOG, <<0, 0, 0>>, 17, 18),
               vs_entry(VS_PARM_DOG, <<0, 1, 0>>, 17, 18)},
       e4 \in LaterEntries}
\* The image of test_all_inuse_err: no parm id, unused, and two Dogs with
\* every fault of an entry in use.
AllInuseErr ==
    LET dog(id) == vs_entry(id, <<255, 255, 255>>,
                            VS_PARM_DIRECTION_MAX + 1,
                            VS_PARM_ANIMAL_MIN - 1)
    IN dog(VS_PARM_DOG + VS_PARM_WEST) \o UnusedEntry \o dog(VS_PARM_DOG)
         \o dog(VS_PARM_DOG)
\* Two images with the parm ids the others leave out, each entry in use
\* with padding not zeroed and bounds out of order.
NamedImages ==
    LET named(id) == vs_entry(id, <<1, 0, 0>>, 65536, 4096)
    IN {named(VS_PARM_APE) \o named(VS_PARM_BAT) \o named(VS_PARM_NORTH)
          \o named(VS_PARM_EAST),
        named(VS_PARM_WEST) \o named(VS_PARM_WEST) \o UnusedEntry
          \o named(VS_PARM_DOG)}
\* Images for the builds that differ in what their memcpy makes of an
\* overlapping copy: the table of four unused entries, a table of four
\* valid ones, and tables with entries in error.
BuildImages ==
    {UnusedEntry \o UnusedEntry \o UnusedEntry \o UnusedEntry,
     ValidEntry(1) \o ValidEntry(2) \o ValidEntry(3) \o ValidEntry(4),
     AllInuseErr}
    \cup NamedImages
    \cup {e \o UnusedEntry \o ValidEntry(3) \o e : e \in NoParmEntries}

EntryImages ==
    OneEntryImages \cup LaterEntryImages \cup NamedImages
      \cup {AllInuseErr}

\* Programs for the calls in between.  The first ends in a fault and
\* leaves values on both stacks, the input half read, a byte in the output
\* queue and numbers in both registers; the second halts and leaves a
\* Boolean in a register and in a stack slot.
LeavesFault ==
    <<PUSHN(5), PUSHN(6), INPUT(1), PUSHS(0), OUTPUT, CALL(7), HALT, ADD>>
LeavesHalt == <<PUSHB(TRUE), PUSHB(TRUE), HALT>>

\* What the build and the processor decide: the byte order of its
\* integers, the direction its memcpy copies in, and whether a load of a
\* 2- or 4-byte integer from an address that is no multiple of its size
\* traps.
\* An opening that sends the line "A" as event 8 of type 2 and leaves the
\* numbers 8193 and 3 on the stack for a second FLUSH.
FlushOnce ==
    <<PUSHN(8193), PUSHN(3), PUSHN(8), PUSHN(2), PUSHS(0), OUTPUT, FLUSH>>

\* An opening that leaves four slots that differ, w x y z.
Distinct == <<PUSHN(1), PUSHB(TRUE), PUSHS(0), PUSHN(2)>>

\* An opening that leaves a number on the argument stack, a return
\* address on the control stack, a byte of the image read and the line
\* "A" in the output queue, and goes on at the instruction after it.
Occupied == <<INPUT(1), PUSHS(0), OUTPUT, CALL(4)>>
\* Instructions whose operand is not valid for their opcode: a literal of
\* the wrong variant, a JMPIF below 2, and counts of repetition below the
\* least or, for INPUT, not a size.
InvalidOperands ==
    {Instruction(GRUNT_OP_PUSHB, 0, Num(U32(1))),
     Instruction(GRUNT_OP_PUSHB, 0, PC(1)),
     Instruction(GRUNT_OP_PUSHN, 0, Bool(TRUE)),
     Instruction(GRUNT_OP_PUSHN, 0, Str(0)),
     Instruction(GRUNT_OP_PUSHS, 0, Num(U32(0))),
     Instruction(GRUNT_OP_PUSHS, 0, Bool(FALSE)),
     Instruction(GRUNT_OP_CALL, 0, Num(U32(GRUNT_PC_MAX))),
     Instruction(GRUNT_OP_CALL, 0, Bool(TRUE)),
     Instruction(GRUNT_OP_JMPIF, 0, Num(U32(2))),
     Instruction(GRUNT_OP_JMPIF, 0, Str(0)),
     JMPIF(0), JMPIF(1), DUP(0), POP(0), ROLL(0), ROLL(1), EQ(0), EQ(1),
     AND(0), AND(1), OR(0), OR(1), INPUT(0), INPUT(3), INPUT(5)}

LittleEndian == [big_endian |-> FALSE, memcpy_forward |-> FALSE,
                 strict_alignment |-> FALSE]
Hosts == [big_endian : BOOLEAN, memcpy_forward : BOOLEAN,
          strict_alignment : BOOLEAN]

Family(f) ==
    CASE f = "mixed" ->
           [openings |-> {<<>>},
            free |-> MaxFree,
            set |-> {PUSHB(TRUE), PUSHB(FALSE), PUSHN(1), PUSHS(0), POP(1),
                     DUP(1), ROLL(2), INPUT(1), REWIND(0), OUTPUT, FLUSH,
                     ADD, SUB, EQ(2), LT, GT, AND(2), OR(2), NOT,
                     CALL(1), CALL(2), JMPIF(2), RETURN, HALT,
                     Instruction(0, 0, ZeroValue),
                     Instruction(GRUNT_OP_PUSHB, 0, Num(U32(1)))},
            images |-> {Image(1)},
            strings |-> OneString,
            hosts |-> {LittleEndian},
            runs |-> 1, between |-> {}]
      [] f = "control" ->
           [openings |-> {<<>>},
            free |-> MaxFreeControl,
            set |-> {CALL(t) : t \in 0 .. MaxFreeControl}
                    \cup {JMPIF(1), JMPIF(2), JMPIF(3), JMPIF(GRUNT_PC_MAX),
                          RETURN, PUSHB(TRUE), PUSHB(FALSE), HALT,
                          Instruction(GRUNT_OP_CALL, 0, Num(U32(MaxFreeControl))),
                          Instruction(GRUNT_OP_JMPIF, 0, Num(U32(2)))},
            images |-> {Image(0)},
            strings |-> OneString,
            hosts |-> {LittleEndian},
            runs |-> 1, between |-> {}]
      [] f = "stack" ->
           [openings |-> {<<>>, FillArgs(2)},
            free |-> MaxFree,
            set |-> {PUSHB(TRUE), PUSHN(7), PUSHS(0), INPUT(1),
                     DUP(1), DUP(2), DUP(3), POP(1), POP(2), ROLL(2), ROLL(3),
                     ADD, NOT, EQ(2), RETURN,
                     CALL(Len(FillArgs(2)) + 1), CALL(Len(FillArgs(2)) + 2),
                     CALL(Len(FillArgs(2)) + 3)},
            images |-> {Image(MaxImage)},
            strings |-> OneString,
            hosts |-> {h \in Hosts : ~h.big_endian /\ ~h.strict_alignment},
            runs |-> 1, between |-> {}]
      [] f = "arith" ->
           [openings |-> {<<>>},
            free |-> MaxFree + 1,
            set |-> {PUSHN(0), PUSHN(1), PUSHN(65535), PUSHN(65536),
                     Instruction(GRUNT_OP_PUSHN, 0, Num(GRUNT_NUM_MAX)),
                     Instruction(GRUNT_OP_PUSHN, 0, Num(<<65535, 65534>>)),
                     PUSHB(TRUE), PUSHB(FALSE),
                     PUSHS(0), ADD, SUB, HALT},
            images |-> {Image(0)},
            strings |-> OneString,
            hosts |-> {LittleEndian},
            runs |-> 1, between |-> {}]
      [] f = "input" ->
           [openings |-> {<<>>, FillArgs(0)},
            free |-> MaxFree,
            set |-> {INPUT(0), INPUT(1), INPUT(2), INPUT(3), INPUT(4),
                     REWIND(0), REWIND(1), REWIND(2), REWIND(3), REWIND(4),
                     POP(1)},
            images |-> {Image(n) : n \in 0 .. MaxImage},
            strings |-> OneString,
            hosts |-> {h \in Hosts : ~h.memcpy_forward},
            runs |-> 1, between |-> {}]
      [] f = "flush" ->
           [openings |-> {<<>>, FlushOnce},
            free |-> MaxFree + 1,
            set |-> {PUSHN(7), PUSHN(2), PUSHB(TRUE), PUSHS(0), OUTPUT,
                     FLUSH},
            images |-> {Image(0)},
            strings |-> OneString,
            hosts |-> {LittleEndian},
            runs |-> 1, between |-> {}]
      [] f = "jump" ->
           [openings |-> {<<>>},
            free |-> MaxFree + 1,
            set |-> {PUSHB(TRUE), PUSHB(FALSE), PUSHN(1), HALT,
                     JMPIF(0), JMPIF(1), JMPIF(2), JMPIF(3),
                     JMPIF(GRUNT_PC_MAX - 2), JMPIF(GRUNT_PC_MAX - 1),
                     JMPIF(GRUNT_PC_MAX),
                     Instruction(GRUNT_OP_JMPIF, 0, Num(U32(2))),
                     CALL(0), CALL(1), CALL(2), CALL(3),
                     CALL(GRUNT_PC_MAX)},
            images |-> {Image(0)},
            strings |-> OneString,
            hosts |-> {LittleEndian},
            runs |-> 1, between |-> {}]
      [] f = "vsvf" ->
           [openings |-> {vsvf_program},
            free |-> 0,
            set |-> {},
            images |-> TableImages,
            strings |-> vsvf_strings,
            hosts |-> {LittleEndian},
            runs |-> 1, between |-> {}]
      [] f = "entries" ->
           [openings |-> {vsvf_program},
            free |-> 0,
            set |-> {},
            images |-> EntryImages,
            strings |-> vsvf_strings,
            hosts |-> {LittleEndian},
            runs |-> 1, between |-> {}]
      [] f = "operand" ->
           [openings |-> {<<>>, FillArgs(0), Occupied},
            free |-> MaxFree - 1,
            set |-> InvalidOperands \cup {PUSHB(TRUE), PUSHN(1), HALT},
            images |-> {Image(2)},
            strings |-> OneString,
            hosts |-> {LittleEndian},
            runs |-> 1, between |-> {}]
      [] f = "roll" ->
           [openings |-> {<<>>, Distinct, FillArgs(2) \o <<PUSHB(TRUE)>>},
            free |-> MaxFree,
            set |-> {DUP(1), DUP(2), DUP(3), DUP(5), ROLL(2), ROLL(3),
                     ROLL(4), ROLL(5), HALT},
            images |-> {Image(0)},
            strings |-> OneString,
            hosts |-> {h \in Hosts : ~h.big_endian /\ ~h.strict_alignment},
            runs |-> 1, between |-> {}]
      [] f = "compare" ->
           [openings |-> {<<>>, <<PUSHN(17), PUSHN(13)>>,
                          <<PUSHN(7), PUSHN(11)>>},
            free |-> MaxFree,
            set |-> {PUSHN(7), PUSHN(11), PUSHN(65536), PUSHB(TRUE),
                     SUB, LT, GT, HALT},
            images |-> {Image(0)},
            strings |-> OneString,
            hosts |-> {LittleEndian},
            runs |-> 1, between |-> {}]

      [] f = "builds" ->
           [openings |-> {vsvf_program},
            free |-> 0,
            set |-> {},
            images |-> BuildImages,
            strings |-> vsvf_strings,
            hosts |-> {h \in Hosts : ~h.big_endian /\ ~h.strict_alignment},
            runs |-> 1, between |-> {}]

      [] f = "long" ->
           [openings |-> {<<>>, <<PUSHS(0), OUTPUT>>},
            free |-> MaxFree,
            set |-> {PUSHS(0), PUSHS(1), PUSHS(2), PUSHN(1), OUTPUT, FLUSH,
                     HALT},
            images |-> {Image(0)},
            strings |-> LongStrings,
            hosts |-> {LittleEndian},
            runs |-> 1, between |-> {}]

      [] f = "rerun" ->
           [openings |-> {<<>>},
            free |-> MaxFree,
            set |-> {PUSHN(1), PUSHB(TRUE), PUSHS(0), INPUT(1), OUTPUT,
                     FLUSH, ADD, NOT, POP(1), DUP(1), ROLL(2), CALL(2),
                     RETURN, HALT},
            images |-> {Image(0), Image(2)},
            strings |-> OneString,
            hosts |-> {LittleEndian},
            runs |-> MaxRuns, between |-> {LeavesFault, LeavesHalt}]
      [] f = "output" ->
           [openings |-> {<<>>, FillOutput},
            free |-> MaxFree + 1,
            set |-> {PUSHS(0), PUSHS(1), PUSHS(2), PUSHS(3),
                     PUSHN(0), PUSHN(7),
                     Instruction(GRUNT_OP_PUSHN, 0, Num(GRUNT_NUM_MAX)),
                     PUSHB(TRUE), PUSHB(FALSE), OUTPUT, FLUSH},
            images |-> {Image(0)},
            strings |-> OutputStrings,
            hosts |-> {LittleEndian},
            runs |-> 1, between |-> {}]

\* The results of VSC_table_validate.
CFE_SUCCESS == 0
\* ~CFE_SUCCESS, in two's complement.
VSC_TABLE_INVALID_RESULT == (-CFE_SUCCESS) - 1

\* The arguments of a call of GRUNT_Run.  The first call of a behaviour
\* takes a program of the family, of which only the opening is fixed.  A
\* later call repeats the arguments of an earlier one, or takes one of
\* the family's programs for the calls in between.
Arguments ==
    IF history = <<>>
    THEN {[opening |-> o, free |-> n, p_data |-> d, repeats |-> 0,
           program |-> <<>>, known |-> {}] :
            o \in Family(family).openings,
            n \in 0 .. Family(family).free,
            d \in Family(family).images}
    ELSE {[opening |-> o, free |-> 0, p_data |-> d, repeats |-> 0,
           program |-> <<>>, known |-> {}] :
            o \in Family(family).between,
            d \in Family(family).images}
         \cup
         {[opening |-> <<>>, free |-> history[k].num_instructions,
           p_data |-> history[k].p_data, repeats |-> k,
           program |-> history[k].program,
           known |-> history[k].decided] : k \in DOMAIN history}

\* The state before the first call: storage of static duration, zeroed or
\* as initialised, and nothing received by the event sink.
InitOf(f) ==
    /\ family = f
    /\ host \in Family(f).hosts
    /\ program = <<>>
    /\ decided = {}
    /\ num_instructions = 0
    /\ phase = "idle"
    /\ status = 0
    /\ current_instruction = 0
    /\ g_pc = 0
    /\ g_ra = ZeroValue
    /\ g_rb = ZeroValue
    /\ g_stack = [i \in 0 .. (GRUNT_STACK_SIZE - 1) |-> ZeroValue]
    /\ g_argument_count = 0
    /\ g_control_count = 0
    /\ g_input_queue = [null |-> TRUE, bytes |-> <<>>]
    /\ g_input_queue_size = 0
    /\ g_head_index = 0
    /\ g_string_table = <<>>
    /\ g_num_strings = 0
    /\ g_output_queue = [i \in 0 .. (OUTPUT_QUEUE_SIZE - 1) |-> 0]
    /\ g_tail_index = 0
    /\ events = <<>>
    /\ debug = <<>>
    /\ payload = <<>>
    /\ executed = 0
    /\ trace = <<>>
    /\ vsc = "idle"
    /\ vsc_result = VSC_TABLE_INVALID_RESULT
    /\ perf = <<>>
    /\ repeats = 0
    /\ history = <<>>

Init == InitOf("mixed")

(***************************************************************************)
(* GRUNT_Run                                                               *)
(***************************************************************************)
\* Where the count of executed instructions stops: the validation program
\* runs longer than the programs of the other families.
ExecutedMax ==
    IF family \in {"vsvf", "entries", "builds"} THEN MaxValidatorSteps
    ELSE MaxExecuted

\* The call, and the initialisation of the machine before the loop.
GRUNT_Run_Enter ==
    /\ phase = "idle"
    /\ vsc = "entered"
    /\ \E args \in Arguments :
         /\ num_instructions' = Len(args.opening) + args.free
         /\ program' = [a \in 0 .. (Len(args.opening) + args.free - 1) |->
                          IF a \in args.known THEN args.program[a]
                          ELSE IF a < Len(args.opening)
                          THEN args.opening[a + 1]
                          ELSE Instruction(0, 0, ZeroValue)]
         /\ decided' = args.known \cup (0 .. (Len(args.opening) - 1))
         /\ repeats' = args.repeats
         /\ Becomes(grunt_vm_init(
                      grunt_output_init(
                        grunt_input_init(grunt_stack_init(Machine),
                                         args.p_data, Len(args.p_data)),
                        Family(family).strings,
                        Len(Family(family).strings))))
    /\ status' = 0
    /\ phase' = "loop"
    /\ executed' = 0
    /\ trace' = <<>>
    /\ UNCHANGED <<family, host, current_instruction, debug,
                   vsc, vsc_result, perf, history>>

\* One pass of the loop that finds the program counter beyond the program.
GRUNT_Run_NoProgram ==
    /\ phase = "loop"
    /\ ~(g_pc < num_instructions)
    /\ current_instruction' = g_pc
    /\ status' = GRUNT_ERROR_NOPROGRAM
    /\ phase' = "exit"
    /\ UNCHANGED <<family, host, program, decided, num_instructions,
                   g_pc, g_ra, g_rb, g_stack, g_argument_count,
                   g_control_count, g_input_queue, g_input_queue_size,
                   g_head_index, g_string_table, g_num_strings,
                   g_output_queue, g_tail_index, events, debug, payload,
                   executed, trace, caller>>

\* Mutant: the loop goes on after a fault and ends only at a halt.
GRUNT_Run_Step_past_fault ==
    /\ phase = "loop"
    /\ g_pc < num_instructions
    /\ \E p_i \in (IF g_pc \in decided THEN {program[g_pc]}
                   ELSE Family(family).set) :
         LET st == grunt_vm_step(Machine, p_i)
         IN /\ program' = [program EXCEPT ![g_pc] = p_i]
            /\ decided' = decided \cup {g_pc}
            /\ current_instruction' = g_pc
            /\ Becomes(st)
            /\ status' = st.rc
            /\ phase' = IF st.rc \in {GRUNT_HALT_TRUE, GRUNT_HALT_FALSE}
                        THEN "exit" ELSE "loop"
    /\ executed' = IF executed < ExecutedMax THEN executed + 1 ELSE executed
    /\ trace' = IF Len(trace) < MaxExecuted THEN Append(trace, g_pc)
                ELSE trace
    /\ UNCHANGED <<family, host, num_instructions, debug, caller>>

\* One pass of the loop that fetches program[g_pc] and steps.
GRUNT_Run_Step ==
    /\ phase = "loop"
    /\ g_pc < num_instructions
    /\ \E p_i \in (IF g_pc \in decided THEN {program[g_pc]}
                   ELSE Family(family).set) :
         LET st == grunt_vm_step(Machine, p_i)
         IN /\ program' = [program EXCEPT ![g_pc] = p_i]
            /\ decided' = decided \cup {g_pc}
            /\ current_instruction' = g_pc
            /\ Becomes(st)
            /\ status' = IF st.trap THEN status ELSE st.rc
            /\ phase' = IF st.trap THEN "trapped"
                        ELSE IF st.rc = 0 THEN "loop" ELSE "exit"
    /\ executed' = IF executed < ExecutedMax THEN executed + 1 ELSE executed
    /\ trace' = IF Len(trace) < MaxExecuted THEN Append(trace, g_pc)
                ELSE trace
    /\ UNCHANGED <<family, host, num_instructions, debug, caller>>

\* Mutant: the run returns without a word about its fault.
GRUNT_Run_Exit_silent ==
    /\ phase = "exit"
    /\ debug' = debug
    /\ phase' = "returned"
    /\ UNCHANGED <<family, host, program, decided, num_instructions, status,
                   current_instruction, g_pc, g_ra, g_rb, g_stack,
                   g_argument_count, g_control_count, g_input_queue,
                   g_input_queue_size, g_head_index, g_string_table,
                   g_num_strings, g_output_queue, g_tail_index, events,
                   payload, executed, trace, caller>>

\* After the loop: the debug message of a fault, and the return.
GRUNT_Run_Exit ==
    /\ phase = "exit"
    /\ debug' = IF ~(status = GRUNT_HALT_TRUE \/ status = GRUNT_HALT_FALSE)
                THEN Append(debug, grunt_vm_error(status, current_instruction))
                ELSE debug
    /\ phase' = "returned"
    /\ UNCHANGED <<family, host, program, decided, num_instructions, status,
                   current_instruction, g_pc, g_ra, g_rb, g_stack,
                   g_argument_count, g_control_count, g_input_queue,
                   g_input_queue_size, g_head_index, g_string_table,
                   g_num_strings, g_output_queue, g_tail_index, events,
                   payload, executed, trace, caller>>

(***************************************************************************)
(* VSC_table_validate                                                      *)
(***************************************************************************)
\* The events the sink has received since the current call of GRUNT_Run.
RunEvents ==
    SubSeq(events,
           (IF history = <<>> THEN 0 ELSE history[Len(history)].upto) + 1,
           Len(events))

\* The call by the table service, up to the call of GRUNT_Run.
VSC_table_validate_Entry ==
    /\ \/ vsc = "idle"
       \/ vsc = "left" /\ Len(history) < Family(family).runs
    /\ vsc' = "entered"
    /\ vsc_result' = VSC_TABLE_INVALID_RESULT
    /\ perf' = Append(perf, "CFE_ES_PerfLogEntry")
    /\ phase' = "idle"
    /\ status' = 0
    /\ UNCHANGED <<family, program, decided, num_instructions, host,
                   current_instruction, g_pc, g_ra, g_rb, g_stack,
                   g_argument_count, g_control_count, g_input_queue,
                   g_input_queue_size, g_head_index, g_string_table,
                   g_num_strings, g_output_queue, g_tail_index, events,
                   debug, payload, executed, trace, repeats, history>>

\* Mutant: either halt counts as a valid table.
VSC_table_validate_Exit_any_halt ==
    /\ vsc = "entered"
    /\ phase = "returned"
    /\ vsc_result' = IF status \in {GRUNT_HALT_TRUE, GRUNT_HALT_FALSE}
                     THEN CFE_SUCCESS
                     ELSE VSC_TABLE_INVALID_RESULT
    /\ perf' = Append(perf, "CFE_ES_PerfLogExit")
    /\ vsc' = "left"
    /\ history' = Append(history,
                         [program |-> program, decided |-> decided,
                          num_instructions |-> num_instructions,
                          p_data |-> g_input_queue.bytes,
                          repeats |-> repeats,
                          status |-> status,
                          events |-> RunEvents,
                          upto |-> Len(events)])
    /\ UNCHANGED <<family, program, decided, num_instructions, host, phase,
                   status, current_instruction, g_pc, g_ra, g_rb, g_stack,
                   g_argument_count, g_control_count, g_input_queue,
                   g_input_queue_size, g_head_index, g_string_table,
                   g_num_strings, g_output_queue, g_tail_index, events,
                   debug, payload, executed, trace, repeats>>

\* From the return of GRUNT_Run to the return to the table service.
VSC_table_validate_Exit ==
    /\ vsc = "entered"
    /\ phase = "returned"
    /\ vsc_result' = IF GRUNT_HALT_TRUE = status THEN CFE_SUCCESS
                     ELSE VSC_TABLE_INVALID_RESULT
    /\ perf' = Append(perf, "CFE_ES_PerfLogExit")
    /\ vsc' = "left"
    /\ history' = Append(history,
                         [program |-> program, decided |-> decided,
                          num_instructions |-> num_instructions,
                          p_data |-> g_input_queue.bytes,
                          repeats |-> repeats,
                          status |-> status,
                          events |-> RunEvents,
                          upto |-> Len(events)])
    /\ UNCHANGED <<family, program, decided, num_instructions, host, phase,
                   status, current_instruction, g_pc, g_ra, g_rb, g_stack,
                   g_argument_count, g_control_count, g_input_queue,
                   g_input_queue_size, g_head_index, g_string_table,
                   g_num_strings, g_output_queue, g_tail_index, events,
                   debug, payload, executed, trace, repeats>>

Next ==
    \/ VSC_table_validate_Entry
    \/ VSC_table_validate_Exit
    \/ GRUNT_Run_Enter
    \/ GRUNT_Run_NoProgram
    \/ GRUNT_Run_Step
    \/ GRUNT_Run_Exit

Spec == Init /\ [][Next]_vars
SpecControl == InitOf("control") /\ [][Next]_vars
SpecStack == InitOf("stack") /\ [][Next]_vars
SpecArith == InitOf("arith") /\ [][Next]_vars
SpecInput == InitOf("input") /\ [][Next]_vars
SpecOutput == InitOf("output") /\ [][Next]_vars
SpecJump == InitOf("jump") /\ [][Next]_vars
SpecSteps == (InitOf("control") \/ InitOf("vsvf")) /\ [][Next]_vars
SpecRerun == InitOf("rerun") /\ [][Next]_vars
SpecValidate == (InitOf("mixed") \/ InitOf("vsvf")) /\ [][Next]_vars
\* Any short program, or the validation program on the images of entries.
SpecEntries == (InitOf("mixed") \/ InitOf("entries")) /\ [][Next]_vars
SpecCompare == InitOf("compare") /\ [][Next]_vars

SpecFrame ==
    /\ \/ InitOf("mixed")
       \/ InitOf("control")
       \/ InitOf("stack")
       \/ InitOf("input")
       \/ InitOf("output")
       \/ InitOf("rerun")
       \/ InitOf("roll")
    /\ [][Next]_vars

SpecBuilds == (InitOf("mixed") \/ InitOf("builds")) /\ [][Next]_vars

SpecTables ==
    /\ InitOf("mixed") \/ InitOf("entries") \/ InitOf("builds")
    /\ [][Next]_vars

SpecPrograms ==
    /\ \/ InitOf("operand")
       \/ InitOf("mixed")
       \/ InitOf("control")
       \/ InitOf("stack")
       \/ InitOf("input")
       \/ InitOf("roll")
       \/ InitOf("builds")
    /\ [][Next]_vars

SpecLong == InitOf("long") /\ [][Next]_vars

SpecFlush == InitOf("flush") /\ [][Next]_vars
SpecOperand == InitOf("operand") /\ [][Next]_vars
SpecRoll == InitOf("roll") /\ [][Next]_vars

\* GRUNT_Run is one synchronous call: once entered it runs to its return.
LiveControl == InitOf("control") /\ [][Next]_vars /\ WF_vars(Next)

(***************************************************************************)
(* Vocabulary of the properties                                            *)
(***************************************************************************)
Halts == {GRUNT_HALT_TRUE, GRUNT_HALT_FALSE}
Faults == {GRUNT_ERROR_INTERPRETERBUG, GRUNT_ERROR_INVALIDARGUMENT,
           GRUNT_ERROR_INVALIDLITERAL, GRUNT_ERROR_INVALIDOPCODE,
           GRUNT_ERROR_NOLOOPS, GRUNT_ERROR_NOPROGRAM,
           GRUNT_ERROR_OUTOFBOUNDS}

\* The instruction the loop's last step executed, once it has stepped.
LastInstruction == program[current_instruction]
\* The opcodes of the instructions fetched so far.
FetchedOps == {program[a].op : a \in decided}

\* The argument area and the control area of the backing array.
ArgArea == 0 .. (g_argument_count - 1)
CtlArea == (GRUNT_STACK_SIZE - g_control_count) .. (GRUNT_STACK_SIZE - 1)

\* The loop is about to fetch and step: in the step that follows, the
\* instruction executed is program'[g_pc], at address g_pc.
Steps == phase = "loop" /\ g_pc < num_instructions

\* A step leaves the two counts and every live slot as they were.
StackUntouched ==
    /\ g_argument_count' = g_argument_count
    /\ g_control_count' = g_control_count
    /\ \A i \in ArgArea \cup CtlArea : g_stack'[i] = g_stack[i]

\* Free slots between the argument area and the control area.
Room == GRUNT_STACK_SIZE - (g_argument_count + g_control_count)

(***************************************************************************)
(* C1.  Every run terminates: whatever the program of CALLs, RETURNs and   *)
(* JMPIFs and whatever the image, GRUNT_Run executes finitely many         *)
(* instructions and then returns HaltTrue, HaltFalse or a fault status.    *)
(***************************************************************************)
C1_RunTerminates ==
    <>(phase = "returned" /\ status \in Halts \cup Faults)

\* A returned run that executed a CALL, a RETURN and a JMPIF, and more
\* instructions than the program holds.
C1_Witness ==
    /\ phase = "returned"
    /\ {GRUNT_OP_CALL, GRUNT_OP_RETURN, GRUNT_OP_JMPIF} \subseteq FetchedOps
    /\ executed > num_instructions

(***************************************************************************)
(* C2.  CALL at address c with PC literal t.  If t <= c it returns         *)
(* NoLoops, pushes nothing on the control stack and does not transfer to   *)
(* t.  If t > c and a stack slot is free it pushes c + 1 on the control    *)
(* stack and sets pc to t.  If t > c and no slot is free it returns        *)
(* OutOfBounds, pushes nothing, and pc stays at c + 1.  The forward-only   *)
(* test comes first: a backward CALL is NoLoops whether or not there is    *)
(* room.                                                                   *)
(***************************************************************************)
C2_CallForwardOnly ==
    [][(Steps /\ program'[g_pc].op = GRUNT_OP_CALL
              /\ program'[g_pc].lit.type = gt_pc)
       => LET c == g_pc
              t == program'[g_pc].lit.val
          IN IF t <= c
             THEN /\ status' = GRUNT_ERROR_NOLOOPS
                  /\ StackUntouched
                  /\ g_pc' # t
             ELSE IF Room >= 1
             THEN /\ status' = 0
                  /\ g_control_count' = g_control_count + 1
                  /\ g_argument_count' = g_argument_count
                  /\ g_stack'[(GRUNT_STACK_SIZE - 1) - g_control_count]
                       = PC(c + 1)
                  /\ g_pc' = t
             ELSE /\ status' = GRUNT_ERROR_OUTOFBOUNDS
                  /\ StackUntouched
                  /\ g_pc' = c + 1]_vars

\* C2 as first stated: every forward CALL pushes c + 1 and sets pc to t.
C2_CallForwardAlwaysPushes ==
    [][(Steps /\ program'[g_pc].op = GRUNT_OP_CALL
              /\ program'[g_pc].lit.type = gt_pc)
       => LET c == g_pc
              t == program'[g_pc].lit.val
          IN IF t <= c
             THEN /\ status' = GRUNT_ERROR_NOLOOPS
                  /\ StackUntouched
                  /\ g_pc' # t
             ELSE /\ status' = 0
                  /\ g_control_count' = g_control_count + 1
                  /\ g_stack'[(GRUNT_STACK_SIZE - 1) - g_control_count]
                       = PC(c + 1)
                  /\ g_pc' = t]_vars

\* A forward CALL, made after an earlier CALL had pushed its return
\* address, found the stack full and ended the run with OutOfBounds.
C2_Witness ==
    /\ phase = "exit"
    /\ status = GRUNT_ERROR_OUTOFBOUNDS
    /\ LastInstruction.op = GRUNT_OP_CALL
    /\ LastInstruction.lit.type = gt_pc
    /\ LastInstruction.lit.val > current_instruction
    /\ g_control_count >= 1
    /\ Room = 0

(***************************************************************************)
(* C3.  In every reachable state argc >= 0, ctlc >= 0, argc + ctlc <= K    *)
(* (K = 32), and the argument area [0, argc) and the control area          *)
(* [K - ctlc, K) do not overlap.  A PUSHB, PUSHN, PUSHS, INPUT, DUP or     *)
(* CALL whose operand is valid and which needs more slots than are free    *)
(* returns OutOfBounds and leaves argc, ctlc and every live slot as they   *)
(* were.                                                                   *)
(***************************************************************************)
\* The slots instruction i pushes when its operand is valid, else 0.
SlotsPushed(i) ==
    CASE i.op = GRUNT_OP_PUSHB -> IF i.lit.type = gt_bool THEN 1 ELSE 0
      [] i.op = GRUNT_OP_PUSHN -> IF i.lit.type = gt_num THEN 1 ELSE 0
      [] i.op = GRUNT_OP_PUSHS -> IF i.lit.type = gt_str THEN 1 ELSE 0
      [] i.op = GRUNT_OP_INPUT ->
           IF i.rep \in {1, 2, 4}
              /\ g_head_index + i.rep <= g_input_queue_size
           THEN 1 ELSE 0
      [] i.op = GRUNT_OP_DUP ->
           IF i.rep >= 1 /\ i.rep <= g_argument_count THEN i.rep ELSE 0
      [] i.op = GRUNT_OP_CALL ->
           IF i.lit.type = gt_pc /\ i.lit.val > g_pc THEN 1 ELSE 0
      [] OTHER -> 0

C3_StackWithinBounds ==
    /\ [](/\ g_argument_count >= 0
          /\ g_control_count >= 0
          /\ g_argument_count + g_control_count <= GRUNT_STACK_SIZE
          /\ ArgArea \cap CtlArea = {})
    /\ [][(Steps /\ SlotsPushed(program'[g_pc]) > Room)
          => /\ status' = GRUNT_ERROR_OUTOFBOUNDS
             /\ StackUntouched]_vars

\* A push found both areas in use and no slot free, and ended the run
\* with OutOfBounds.
C3_Witness ==
    /\ phase = "exit"
    /\ status = GRUNT_ERROR_OUTOFBOUNDS
    /\ LastInstruction.op \in {GRUNT_OP_PUSHB, GRUNT_OP_PUSHN, GRUNT_OP_PUSHS,
                               GRUNT_OP_INPUT, GRUNT_OP_DUP}
    /\ g_control_count >= 1
    /\ g_argument_count >= 1
    /\ Room = 0

(***************************************************************************)
(* C4.  In every reachable state every live slot of the argument stack     *)
(* holds a Boolean, a number or a string index, and every live slot of     *)
(* the control stack holds a PC.                                           *)
(***************************************************************************)
C4_StacksTyped ==
    /\ \A i \in ArgArea : g_stack[i].type \in {gt_bool, gt_num, gt_str}
    /\ \A i \in CtlArea : g_stack[i].type = gt_pc

\* Both stacks hold entries, and a ROLL and a CALL have been executed
\* without a fault.
C4_Witness ==
    /\ phase = "loop"
    /\ g_control_count >= 1
    /\ g_argument_count >= 3
    /\ \E a \in decided : a >= Len(FillArgs(2))
                          /\ program[a].op = GRUNT_OP_ROLL
    /\ \E a \in decided : a >= Len(FillArgs(2))
                          /\ program[a].op = GRUNT_OP_CALL

(***************************************************************************)
(* C5.  The status becomes HaltTrue (HaltFalse) only in a step that        *)
(* executes HALT with Bool(true) (Bool(false)) on top of the argument      *)
(* stack and pops it, and that status is what GRUNT_Run returns.  HALT     *)
(* with an empty argument stack returns OutOfBounds; HALT with a number    *)
(* or a string on top returns InvalidArgument.                             *)
(***************************************************************************)
C5_HaltOnlyOnBoolean ==
    /\ [](status \in Halts => /\ phase \in {"exit", "returned"}
                              /\ LastInstruction.op = GRUNT_OP_HALT
                              /\ g_ra = Bool(status = GRUNT_HALT_TRUE))
    /\ [][(status' \in Halts /\ status \notin Halts)
          => /\ Steps
             /\ program'[g_pc].op = GRUNT_OP_HALT
             /\ g_argument_count >= 1
             /\ g_stack[g_argument_count - 1]
                  = Bool(status' = GRUNT_HALT_TRUE)
             /\ g_argument_count' = g_argument_count - 1]_vars
    /\ [][(Steps /\ program'[g_pc].op = GRUNT_OP_HALT)
          => IF g_argument_count = 0
             THEN status' = GRUNT_ERROR_OUTOFBOUNDS
             ELSE (g_stack[g_argument_count - 1].type \in {gt_num, gt_str}
                   => status' = GRUNT_ERROR_INVALIDARGUMENT)]_vars

\* GRUNT_Run returned HaltFalse: HALT popped Bool(false) from above a
\* number that stays on the stack.
C5_Witness ==
    /\ phase = "returned"
    /\ status = GRUNT_HALT_FALSE
    /\ LastInstruction.op = GRUNT_OP_HALT
    /\ g_ra = Bool(FALSE)
    /\ g_argument_count = 1
    /\ g_stack[0].type = gt_num

(***************************************************************************)
(* C6.  The first step that returns a nonzero status is the last: after    *)
(* it no instruction is fetched or executed, no event reaches the sink,    *)
(* the machine is left as it is, and GRUNT_Run returns that status.  When  *)
(* pc >= N at fetch time (N = 0 included) the loop ends with NoProgram     *)
(* and fetches nothing.                                                    *)
(***************************************************************************)
C6_FirstFaultIsLast ==
    /\ [](status # 0 => phase \in {"exit", "returned"})
    /\ [](phase = "returned" => status # 0)
    /\ [][status # 0
          => /\ phase' = "returned"
             /\ status' = status
             /\ executed' = executed
             /\ decided' = decided
             /\ events' = events
             /\ <<g_pc, g_stack, g_argument_count, g_control_count,
                  g_head_index, g_output_queue, g_tail_index>>'
                  = <<g_pc, g_stack, g_argument_count, g_control_count,
                      g_head_index, g_output_queue, g_tail_index>>]_vars
    /\ [][(phase = "loop" /\ g_pc >= num_instructions)
          => /\ status' = GRUNT_ERROR_NOPROGRAM
             /\ phase' = "exit"
             /\ executed' = executed
             /\ decided' = decided
             /\ events' = events]_vars

\* A run that sent an event, then ran off the end of its program and
\* returned NoProgram.
C6_Witness ==
    /\ phase = "returned"
    /\ status = GRUNT_ERROR_NOPROGRAM
    /\ Len(events) = 1
    /\ executed = num_instructions
    /\ current_instruction = num_instructions

(***************************************************************************)
(* C7.  ADD and SUB never wrap.  With numbers a (pushed first) and b (on   *)
(* top), ADD pushes a + b when a + b <= 2^32 - 1 and otherwise returns     *)
(* OutOfBounds; SUB pushes a - b when a >= b and otherwise returns         *)
(* OutOfBounds; with an operand that is no number they return              *)
(* InvalidArgument.  Every number in a stack slot is within                *)
(* [0, 2^32 - 1].  (A number is held as two 16-bit halves, high half       *)
(* first.)                                                                 *)
(***************************************************************************)
C7_AddSubNeverWrap ==
    /\ [](\A i \in DOMAIN g_stack :
            g_stack[i].type = gt_num
            => /\ g_stack[i].val[1] \in 0 .. 65535
               /\ g_stack[i].val[2] \in 0 .. 65535)
    /\ [][(Steps /\ program'[g_pc].op \in {GRUNT_OP_ADD, GRUNT_OP_SUB}
                 /\ g_argument_count >= 2)
          => LET a == g_stack[g_argument_count - 2]
                 b == g_stack[g_argument_count - 1]
                 low == a.val[2] + b.val[2]
                 high == a.val[1] + b.val[1] + (low \div 65536)
                 borrow == IF a.val[2] < b.val[2] THEN 1 ELSE 0
                 Pushed(v) == /\ status' = 0
                              /\ g_argument_count' = g_argument_count - 1
                              /\ g_stack'[g_argument_count - 2] = Num(v)
             IN IF a.type # gt_num \/ b.type # gt_num
                THEN status' = GRUNT_ERROR_INVALIDARGUMENT
                ELSE IF program'[g_pc].op = GRUNT_OP_ADD
                THEN IF high <= 65535
                     THEN Pushed(<<high, low % 65536>>)
                     ELSE status' = GRUNT_ERROR_OUTOFBOUNDS
                ELSE IF a.val[1] - b.val[1] - borrow >= 0
                     THEN Pushed(<<a.val[1] - b.val[1] - borrow,
                                   (a.val[2] + 65536 * borrow) - b.val[2]>>)
                     ELSE status' = GRUNT_ERROR_OUTOFBOUNDS]_vars

\* An ADD of 1 to 2^32 - 1 ended the run with OutOfBounds, after an ADD
\* that carried into the high half.
C7_Witness ==
    /\ phase = "exit"
    /\ status = GRUNT_ERROR_OUTOFBOUNDS
    /\ LastInstruction.op = GRUNT_OP_ADD
    /\ g_ra = Num(GRUNT_NUM_MAX)
    /\ g_rb = Num(<<0, 1>>)
    /\ \E i \in 0 .. 1 : g_stack[i] = Num(<<1, 0>>)

(***************************************************************************)
(* C8.  In every reachable state 0 <= head <= L.  INPUT(n) with n in       *)
(* {1, 2, 4} and head + n <= L advances head by exactly n and, when a      *)
(* stack slot is free, pushes the number formed by the n bytes at head     *)
(* (with no slot free it returns OutOfBounds and the stack stays as it     *)
(* was); with head + n > L it returns OutOfBounds, reads nothing and       *)
(* leaves head unchanged, L = 0 included.                                  *)
(***************************************************************************)
\* The number the n bytes of the image at index  at  form in the host's
\* byte order, as two 16-bit halves.
ImageNumber(at, n) ==
    LET b(k) == g_input_queue.bytes[at + 1 + k]
    IN CASE n = 1 -> <<0, b(0)>>
         [] n = 2 -> IF host.big_endian THEN <<0, 256 * b(0) + b(1)>>
                     ELSE <<0, b(0) + 256 * b(1)>>
         [] n = 4 -> IF host.big_endian
                     THEN <<256 * b(0) + b(1), 256 * b(2) + b(3)>>
                     ELSE <<b(2) + 256 * b(3), b(0) + 256 * b(1)>>

C8_InputReadsAndAdvances ==
    /\ [](0 <= g_head_index /\ g_head_index <= g_input_queue_size)
    /\ [][(Steps /\ program'[g_pc].op = GRUNT_OP_INPUT
                 /\ program'[g_pc].rep \in {1, 2, 4})
          => LET n == program'[g_pc].rep
             IN IF g_head_index + n <= g_input_queue_size
                THEN /\ g_head_index' = g_head_index + n
                     /\ IF Room >= 1
                        THEN /\ status' = 0
                             /\ g_argument_count' = g_argument_count + 1
                             /\ g_stack'[g_argument_count]
                                  = Num(ImageNumber(g_head_index, n))
                        ELSE /\ status' = GRUNT_ERROR_OUTOFBOUNDS
                             /\ StackUntouched
                ELSE /\ status' = GRUNT_ERROR_OUTOFBOUNDS
                     /\ g_head_index' = g_head_index
                     /\ StackUntouched]_vars

(***************************************************************************)
(* C9.  REWIND(0) sets head to 0 from any head.  REWIND(k) with            *)
(* 1 <= k <= head sets head to head - k; REWIND(k) with k > head returns   *)
(* OutOfBounds and leaves head unchanged.  No step changes the image, and  *)
(* an INPUT(n) that returns 0 pushes the number the bytes at head form     *)
(* and advances head by n; so INPUT(n), REWIND(n), INPUT(n) pushes the     *)
(* same number twice and ends with the head the first INPUT left.          *)
(***************************************************************************)
\* The state after INPUT(n), REWIND(n), INPUT(n) ran one after the other
\* (the programs of this family have neither calls nor jumps).
RereadDone ==
    /\ phase = "loop"
    /\ executed >= 3
    /\ current_instruction >= 2
    /\ program[current_instruction].op = GRUNT_OP_INPUT
    /\ program[current_instruction - 1].op = GRUNT_OP_REWIND
    /\ program[current_instruction - 2].op = GRUNT_OP_INPUT
    /\ program[current_instruction].rep
         = program[current_instruction - 1].rep
    /\ program[current_instruction].rep
         = program[current_instruction - 2].rep

C9_RewindRestoresHead ==
    /\ [][(Steps /\ program'[g_pc].op = GRUNT_OP_REWIND)
          => LET k == program'[g_pc].rep
             IN IF k = 0
                THEN status' = 0 /\ g_head_index' = 0
                ELSE IF k <= g_head_index
                THEN status' = 0 /\ g_head_index' = g_head_index - k
                ELSE /\ status' = GRUNT_ERROR_OUTOFBOUNDS
                     /\ g_head_index' = g_head_index]_vars
    /\ [][Steps => /\ g_input_queue' = g_input_queue
                   /\ g_input_queue_size' = g_input_queue_size]_vars
    /\ [][(Steps /\ program'[g_pc].op = GRUNT_OP_INPUT
                 /\ phase' = "loop")
          => /\ g_head_index' = g_head_index + program'[g_pc].rep
             /\ g_stack'[g_argument_count]
                  = Num(ImageNumber(g_head_index, program'[g_pc].rep))]_vars
    /\ [](RereadDone
          => /\ g_stack[g_argument_count - 1]
                  = g_stack[g_argument_count - 2]
             /\ g_stack[g_argument_count - 1]
                  = Num(ImageNumber(
                          g_head_index - program[current_instruction].rep,
                          program[current_instruction].rep)))

\* INPUT(2), REWIND(2), INPUT(2) ran on a little-endian host: the same
\* two-byte number is on the stack twice and head is 2 again.
C9_Witness ==
    /\ RereadDone
    /\ program[current_instruction].rep = 2
    /\ ~host.big_endian
    /\ g_head_index = 2
    /\ g_argument_count = 2
    /\ g_stack[1] = Num(<<0, ImageByte(1) + 256 * ImageByte(2)>>)

(***************************************************************************)
(* C10.  In every reachable state tail <= C - 1 and the bytes of the       *)
(* output queue from tail to C - 1 are zero.  An OUTPUT that appends the   *)
(* w bytes of its operand's text keeps bytes [0, tail), writes the text    *)
(* at tail and adds w to tail when tail + w <= C - 1; when                 *)
(* tail + w > C - 1 it returns OutOfBounds and changes neither the queue   *)
(* nor tail.  A FLUSH that returns 0 zeroes the queue and tail; no other   *)
(* instruction changes either.                                             *)
(***************************************************************************)
\* The text OUTPUT appends for a value of the argument stack.
OutputText(v) ==
    CASE v.type = gt_bool -> IF v.val # 0 THEN <<116, 114, 117, 101>>
                             ELSE <<102, 97, 108, 115, 101>>
      [] v.type = gt_num -> Decimal(v.val)
      [] v.type = gt_str -> g_string_table[v.val + 1]

QueueUntouched ==
    g_output_queue' = g_output_queue /\ g_tail_index' = g_tail_index

C10_OutputLineInvariant ==
    /\ [](/\ g_tail_index <= OUTPUT_QUEUE_SIZE - 1
          /\ DOMAIN g_output_queue = 0 .. (OUTPUT_QUEUE_SIZE - 1)
          /\ \A i \in g_tail_index .. (OUTPUT_QUEUE_SIZE - 1) :
               g_output_queue[i] = 0
          /\ \A i \in 0 .. (g_tail_index - 1) : g_output_queue[i] # 0)
    /\ [][(Steps /\ program'[g_pc].op = GRUNT_OP_OUTPUT
                 /\ g_argument_count >= 1)
          => LET v == g_stack[g_argument_count - 1]
             IN IF v.type = gt_str /\ ~(v.val < g_num_strings)
                THEN status' # 0 /\ QueueUntouched
                ELSE LET text == OutputText(v)
                         w == Len(text)
                     IN IF g_tail_index + w > OUTPUT_QUEUE_SIZE - 1
                        THEN /\ status' = GRUNT_ERROR_OUTOFBOUNDS
                             /\ QueueUntouched
                        ELSE /\ status' = 0
                             /\ g_tail_index' = g_tail_index + w
                             /\ \A i \in 0 .. (g_tail_index - 1) :
                                  g_output_queue'[i] = g_output_queue[i]
                             /\ \A j \in 1 .. w :
                                  g_output_queue'[g_tail_index + j - 1]
                                    = text[j]]_vars
    /\ [][(Steps /\ program'[g_pc].op = GRUNT_OP_FLUSH)
          => IF status' = 0
             THEN /\ g_tail_index' = 0
                  /\ \A i \in DOMAIN g_output_queue' :
                       g_output_queue'[i] = 0
             ELSE QueueUntouched]_vars
    /\ [][(Steps /\ program'[g_pc].op \notin {GRUNT_OP_OUTPUT,
                                              GRUNT_OP_FLUSH})
          => QueueUntouched]_vars

\* An OUTPUT found the queue holding C - 1 bytes of payload and returned
\* OutOfBounds.
C10_Witness ==
    /\ phase = "exit"
    /\ status = GRUNT_ERROR_OUTOFBOUNDS
    /\ LastInstruction.op = GRUNT_OP_OUTPUT
    /\ g_tail_index = OUTPUT_QUEUE_SIZE - 1
    /\ g_output_queue[OUTPUT_QUEUE_SIZE - 2] = 120

(***************************************************************************)
(* C11.  A FLUSH that returns 0 delivers exactly one event, appended       *)
(* after the events already delivered, whose line is the bytes OUTPUT has  *)
(* appended since the previous FLUSH (or since the run began); right       *)
(* after it the output queue is all zero and tail = 0.  No other step      *)
(* delivers an event or changes one already delivered.                     *)
(***************************************************************************)
\* The step is a FLUSH that returns 0.
Flushes ==
    Steps /\ program'[g_pc].op = GRUNT_OP_FLUSH /\ status' = 0

C11_FlushDeliversTheLine ==
    /\ [][Flushes
          => /\ Len(events') = Len(events) + 1
             /\ SubSeq(events', 1, Len(events)) = events
             /\ events'[Len(events')].text = payload
             /\ g_tail_index' = 0
             /\ \A i \in DOMAIN g_output_queue' : g_output_queue'[i] = 0
             /\ payload' = <<>>]_vars
    /\ [][~Flushes => events' = events]_vars

\* Two events are at the sink in the order of their FLUSHes: the line "A"
\* of the opening, then the line "true".
C11_Witness ==
    /\ Len(events) = 2
    /\ events[1].text = <<65>>
    /\ events[2].text = <<116, 114, 117, 101>>
    /\ g_tail_index = 0

C13_CallReturnMatch ==
    /\ [](\A i \in CtlArea :
            /\ g_stack[i].type = gt_pc
            /\ (g_stack[i].val - 1) \in decided
            /\ program[g_stack[i].val - 1].op = GRUNT_OP_CALL)
    /\ [][(Steps /\ program'[g_pc].op = GRUNT_OP_CALL /\ status' = 0)
          => /\ g_control_count' = g_control_count + 1
             /\ g_stack'[(GRUNT_STACK_SIZE - 1) - g_control_count]
                  = PC(g_pc + 1)]_vars
    /\ [][Steps
          => \A i \in CtlArea :
               (GRUNT_STACK_SIZE - g_control_count' <= i)
               => g_stack'[i] = g_stack[i]]_vars
    /\ [][(Steps /\ program'[g_pc].op = GRUNT_OP_RETURN)
          => IF g_control_count = 0
             THEN /\ status' = GRUNT_ERROR_OUTOFBOUNDS
                  /\ StackUntouched
             ELSE /\ status' = 0
                  /\ g_control_count' = g_control_count - 1
                  /\ g_argument_count' = g_argument_count
                  /\ PC(g_pc')
                       = g_stack[GRUNT_STACK_SIZE - g_control_count]]_vars

\* A RETURN of an inner subroutine has run: the pc is one past the inner
\* CALL and the return address of the outer CALL is still on the stack.
C13_Witness ==
    /\ phase = "loop"
    /\ g_control_count = 1
    /\ g_pc >= 1
    /\ LastInstruction.op = GRUNT_OP_RETURN
    /\ program[g_pc - 1].op = GRUNT_OP_CALL
    /\ g_stack[GRUNT_STACK_SIZE - 1].val < g_pc

\* The address of the instruction stepped after the i-th one of the run,
\* or the program counter when the i-th is the latest.
TraceNext(i) == IF i < Len(trace) THEN trace[i + 1] ELSE g_pc
\* A run that returned a halt, all of whose steps the trace holds.
HaltedRun ==
    /\ phase = "returned"
    /\ status \in Halts
    /\ executed < MaxExecuted

(***************************************************************************)
(* C14, as the code has it.  In a run that ends in HaltTrue or HaltFalse,  *)
(* every executed instruction other than RETURN is followed by an          *)
(* instruction at a greater address, CALL included, so the pc strictly     *)
(* increases over any span that contains no RETURN; an executed RETURN at  *)
(* address r is followed by an instruction at an address <= r.             *)
(***************************************************************************)
C14_PcIncreasesWithoutReturn ==
    HaltedRun
    => \A i \in DOMAIN trace :
         IF program[trace[i]].op = GRUNT_OP_RETURN
         THEN TraceNext(i) <= trace[i]
         ELSE TraceNext(i) > trace[i]

\* A halted run in which a RETURN took the pc back and a CALL took it
\* forward by more than one.
C14_Witness ==
    /\ HaltedRun
    /\ \E i \in DOMAIN trace :
         /\ program[trace[i]].op = GRUNT_OP_RETURN
         /\ TraceNext(i) < trace[i]
    /\ \E i \in DOMAIN trace :
         /\ program[trace[i]].op = GRUNT_OP_CALL
         /\ TraceNext(i) > trace[i] + 1

(***************************************************************************)
(* C14, as stated.  In a run that ends in HaltTrue or HaltFalse, over any  *)
(* span of consecutively executed instructions none of which is a CALL,    *)
(* the pc strictly increases from each instruction to the next.            *)
(***************************************************************************)
C14_PcIncreasesWithoutCall ==
    HaltedRun
    => \A i \in DOMAIN trace :
         (/\ i < Len(trace)
          /\ program[trace[i]].op # GRUNT_OP_CALL
          /\ program[trace[i + 1]].op # GRUNT_OP_CALL)
         => trace[i + 1] > trace[i]

(***************************************************************************)
(* C15.  JMPIF at address c with literal d: a literal that is no PC or is  *)
(* below 2 returns InvalidLiteral before anything is popped.  Otherwise    *)
(* the top of the argument stack is popped (no value: OutOfBounds; no      *)
(* Bool: InvalidArgument).  A false Bool continues at c + 1.  A true Bool  *)
(* continues at c + d, unless c + 1 + d exceeds 65535: then the result is  *)
(* NoProgram and the pc stays c + 1.  After a JMPIF or a CALL, whatever    *)
(* it returns, the pc is greater than c and at most 65535.                 *)
(***************************************************************************)
C15_JmpifForward ==
    /\ [][(Steps /\ program'[g_pc].op = GRUNT_OP_JMPIF)
          => LET c == g_pc
                 literal == program'[g_pc].lit
                 d == literal.val
             IN IF literal.type # gt_pc \/ d < 2
                THEN /\ status' = GRUNT_ERROR_INVALIDLITERAL
                     /\ StackUntouched
                     /\ g_pc' = c + 1
                ELSE IF g_argument_count = 0
                THEN /\ status' = GRUNT_ERROR_OUTOFBOUNDS
                     /\ g_pc' = c + 1
                ELSE /\ g_argument_count' = g_argument_count - 1
                     /\ g_control_count' = g_control_count
                     /\ LET top == g_stack[g_argument_count - 1]
                        IN IF top.type # gt_bool
                           THEN /\ status' = GRUNT_ERROR_INVALIDARGUMENT
                                /\ g_pc' = c + 1
                           ELSE IF top.val = 0
                           THEN /\ status' = 0
                                /\ g_pc' = c + 1
                           ELSE IF c + 1 + d > UINT16_MAX
                           THEN /\ status' = GRUNT_ERROR_NOPROGRAM
                                /\ g_pc' = c + 1
                           ELSE /\ status' = 0
                                /\ g_pc' = c + d]_vars
    /\ [][(Steps /\ program'[g_pc].op \in {GRUNT_OP_JMPIF, GRUNT_OP_CALL})
          => /\ g_pc' > g_pc
             /\ g_pc' <= UINT16_MAX]_vars

\* A jump has been taken with the greatest literal that the address of
\* the JMPIF allows.
C15_Witness ==
    /\ phase = "loop"
    /\ status = 0
    /\ g_pc > current_instruction + 1
    /\ LastInstruction.op = GRUNT_OP_JMPIF
    /\ g_pc = current_instruction + LastInstruction.lit.val
    /\ current_instruction + 1 + LastInstruction.lit.val = UINT16_MAX

\* The table images of four unused entries and of four valid entries.
AllUnused ==
    LET unused == vs_entry(VS_PARM_UNUSED, <<0, 0, 0>>, 0, 0)
    IN unused \o unused \o unused \o unused
AllValid == ValidEntry(1) \o ValidEntry(2) \o ValidEntry(3) \o ValidEntry(4)
\* The validation program has returned from the image  image.
Validated(image) ==
    /\ family = "vsvf"
    /\ phase = "returned"
    /\ g_input_queue.bytes = image

C17_RunIsAFunction ==
    /\ [](\A k \in DOMAIN history :
            history[k].repeats # 0
            => /\ history[k].status = history[history[k].repeats].status
               /\ history[k].events = history[history[k].repeats].events)
    /\ [][(phase = "idle" /\ phase' = "loop")
          => /\ g_argument_count' = 0
             /\ g_control_count' = 0
             /\ g_head_index' = 0
             /\ g_tail_index' = 0
             /\ \A i \in DOMAIN g_output_queue' : g_output_queue'[i] = 0
             /\ g_pc' = 0]_vars

\* Three calls have returned: one that sent an event, one in between that
\* ended in a fault, and one with the arguments of the first.
C17_Witness ==
    /\ Len(history) = 3
    /\ history[3].repeats = 1
    /\ history[2].repeats = 0
    /\ history[2].status = GRUNT_ERROR_NOPROGRAM
    /\ Len(history[1].events) = 1
    /\ Len(history[3].events) = 1

(***************************************************************************)
(* C18.  VSC_table_validate returns CFE_SUCCESS if and only if GRUNT_Run   *)
(* returned HaltTrue; for HaltFalse and for every fault it returns the     *)
(* invalid result, which differs from CFE_SUCCESS.  Each call logs the     *)
(* performance entry marker once, before GRUNT_Run starts, and the exit    *)
(* marker once, after GRUNT_Run has returned.                              *)
(***************************************************************************)
C18_ValidateResultAndMarkers ==
    /\ VSC_TABLE_INVALID_RESULT # CFE_SUCCESS
    /\ vsc = "left"
       => /\ phase = "returned"
          /\ status \in Halts \cup Faults
          /\ (vsc_result = CFE_SUCCESS) <=> (status = GRUNT_HALT_TRUE)
          /\ (status # GRUNT_HALT_TRUE)
             => vsc_result = VSC_TABLE_INVALID_RESULT
    /\ \A i \in DOMAIN perf :
         perf[i] = IF i % 2 = 1 THEN "CFE_ES_PerfLogEntry"
                   ELSE "CFE_ES_PerfLogExit"
    /\ Len(perf) = 2 * Len(history) + (IF vsc = "entered" THEN 1 ELSE 0)
    /\ phase \in {"loop", "exit", "trapped"} => vsc = "entered"
    /\ vsc = "idle" => phase = "idle"

\* The validation program has found a table image invalid, and
\* VSC_table_validate has returned.
C18_Witness ==
    /\ family = "vsvf"
    /\ vsc = "left"
    /\ status = GRUNT_HALT_FALSE
    /\ vsc_result = VSC_TABLE_INVALID_RESULT
    /\ perf = <<"CFE_ES_PerfLogEntry", "CFE_ES_PerfLogExit">>

\* The step of GRUNT_Run from the end of its loop to its return.
Returns == phase = "exit" /\ phase' = "returned"

(***************************************************************************)
(* C19, as the code has it.  When a run ends in a fault, GRUNT_Run prints  *)
(* one debug line with the status, the address of the instruction that     *)
(* faulted and a message for the status, on the standard output; the       *)
(* event sink receives nothing for the fault.  A run that halts prints     *)
(* nothing, and nothing is printed at any other step.                      *)
(***************************************************************************)
C19_FaultIsPrinted ==
    /\ [][Returns
          => /\ events' = events
             /\ IF status \in Faults
                THEN /\ Len(debug') = Len(debug) + 1
                     /\ SubSeq(debug', 1, Len(debug)) = debug
                     /\ debug'[Len(debug')].status = status
                     /\ debug'[Len(debug')].pc = current_instruction
                     /\ debug'[Len(debug')].msg
                          = grunt_vm_error(status, current_instruction).msg
                ELSE debug' = debug]_vars
    /\ [][~Returns => debug' = debug]_vars

\* A run has sent an event by FLUSH, then ended in a fault and returned:
\* the sink holds the one event, the debug output one line.
C19_Witness ==
    /\ phase = "returned"
    /\ status \in Faults
    /\ Len(events) = 1
    /\ Len(debug) = 1
    /\ debug[1].status = status

(***************************************************************************)
(* C19, as stated.  When a run ends in a fault, one additional event,      *)
(* describing the fault, is delivered to the sink that receives the        *)
(* events of FLUSH.                                                        *)
(***************************************************************************)
C19_FaultIsAnEvent ==
    [][(Returns /\ status \in Faults)
       => Len(events') = Len(events) + 1]_vars

\* The line of the validation program's last event, for v valid, i invalid
\* and u unused entries.
InfoLine(v, i, u) ==
    vsvf_strings[1] \o Decimal(U32(v)) \o vsvf_strings[2]
      \o Decimal(U32(i)) \o vsvf_strings[3] \o Decimal(U32(u))
      \o vsvf_strings[4]
\* The program of the behaviour is the validation program.
Validates == family = "vsvf"
\* The number a stack slot holds, when it is small.
Small(slot) == slot.val[1] * 65536 + slot.val[2]

ValidatesEntries == family = "entries"
\* The image the run reads.
TableImage == g_input_queue.bytes
\* The fields of entry k of the image, as vs_entry_t lays them out, and
\* the 32-bit number at an offset, least significant byte first.
EntrySize == 1 + 3 + 4 + 4
EntryOffset(k) == EntrySize * (k - 1)
Word(at) ==
    <<TableImage[at + 4] * 256 + TableImage[at + 3],
      TableImage[at + 2] * 256 + TableImage[at + 1]>>
entry_parm_id(k) == TableImage[EntryOffset(k) + 1]
entry_pad(k) == SubSeq(TableImage, EntryOffset(k) + 2, EntryOffset(k) + 4)
entry_bound_low(k) == Word(EntryOffset(k) + 4)
entry_bound_high(k) == Word(EntryOffset(k) + 8)
\* The classes of parm ids and the range of a class.
Animals == {VS_PARM_APE, VS_PARM_BAT, VS_PARM_CAT, VS_PARM_DOG}
Directions == {VS_PARM_NORTH, VS_PARM_SOUTH, VS_PARM_EAST, VS_PARM_WEST}
InUse(k) == entry_parm_id(k) \in Animals \cup Directions
ClassMin(k) ==
    IF entry_parm_id(k) \in Animals THEN U32(VS_PARM_ANIMAL_MIN)
    ELSE U32(VS_PARM_DIRECTION_MIN)
ClassMax(k) ==
    IF entry_parm_id(k) \in Animals THEN U32(VS_PARM_ANIMAL_MAX)
    ELSE U32(VS_PARM_DIRECTION_MAX)
OutOfClass(k, bound) ==
    U32Less(bound, ClassMin(k)) \/ U32Less(ClassMax(k), bound)
\* Entry k begins with VS_PARM_UNUSED and all its other bytes are zero.
ZeroedUnused(k) ==
    /\ entry_parm_id(k) = VS_PARM_UNUSED
    /\ \A i \in 2 .. EntrySize : TableImage[EntryOffset(k) + i] = 0

\* The line of an event begins "Table entry k ".
NamesEntry(line, k) ==
    LET head == vsvf_strings[5] \o Decimal(U32(k)) \o <<32>>
    IN /\ Len(line) >= Len(head)
       /\ SubSeq(line, 1, Len(head)) = head
\* The number of an event id.
EventId(event) == event.id[1] * 65536 + event.id[2]
\* The events of type ERROR the sink has received, and the ids of those
\* whose line names entry k, in the order of their arrival.
ErrorEvents ==
    SelectSeq(events, LAMBDA e : e.type = U32(CFE_EVS_EventType_ERROR))
ErrorsOf(k) ==
    LET of == SelectSeq(ErrorEvents, LAMBDA e : NamesEntry(e.text, k))
    IN [i \in 1 .. Len(of) |-> EventId(of[i])]
\* The entry an error event names.
EntryOf(event) == CHOOSE k \in 1 .. 4 : NamesEntry(event.text, k)
\* The ids of the errors of an entry.
ErrorIds ==
    {VS_TBL_ZERO_ERR_EID, VS_TBL_PARM_ERR_EID, VS_TBL_PAD_ERR_EID,
     VS_TBL_LBND_ERR_EID, VS_TBL_HBND_ERR_EID, VS_TBL_ORDER_ERR_EID,
     VS_TBL_EXTRA_ERR_EID, VS_TBL_REDEF_ERR_EID}
\* The validation program has returned from an image of entries.
EntriesValidated == ValidatesEntries /\ phase = "returned"

RECURSIVE CountEntries(_, _)
CountEntries(P(_), k) ==
    IF k = 0 THEN 0
    ELSE CountEntries(P, k - 1) + (IF P(k) THEN 1 ELSE 0)
\* The line of the last event gives u unused entries.
InfoUnused(u) ==
    /\ events # <<>>
    /\ \E v \in 0 .. 4, i \in 0 .. 4 :
         events[Len(events)].text = InfoLine(v, i, u)

HasError(k, id) == \E i \in DOMAIN ErrorsOf(k) : ErrorsOf(k)[i] = id
\* Entry k is in use and has no error.
InUseNoError(k) == InUse(k) /\ ErrorsOf(k) = <<>>
\* The line of the last event gives v valid entries.
InfoValid(v) ==
    /\ events # <<>>
    /\ \E i \in 0 .. 4, u \in 0 .. 4 :
         events[Len(events)].text = InfoLine(v, i, u)

SameIdEarlier(k) ==
    \E j \in 1 .. (k - 1) : entry_parm_id(j) = entry_parm_id(k)

ReadsParmId == Steps /\ g_pc = VALIDATE_ENTRY
EntryOnTop == Small(g_stack[g_argument_count - 1])

ParmName(parm_id) ==
    CASE parm_id = VS_PARM_UNUSED -> <<85, 110, 117, 115, 101, 100>>
      [] parm_id = VS_PARM_APE -> <<65, 112, 101>>
      [] parm_id = VS_PARM_BAT -> <<66, 97, 116>>
      [] parm_id = VS_PARM_CAT -> <<67, 97, 116>>
      [] parm_id = VS_PARM_DOG -> <<68, 111, 103>>
      [] parm_id = VS_PARM_NORTH -> <<78, 111, 114, 116, 104>>
      [] parm_id = VS_PARM_SOUTH -> <<83, 111, 117, 116, 104>>
      [] parm_id = VS_PARM_EAST -> <<69, 97, 115, 116>>
      [] parm_id = VS_PARM_WEST -> <<87, 101, 115, 116>>
      [] OTHER -> <<85, 110, 107, 110, 111, 119, 110>>
\* The text of an error id, in ASCII: " not zeroed", " padding not zeroed",
\* " invalid low bound", " invalid high bound", " invalid bound order",
\* " follows an unused entry", " redefines earlier entry".
ErrorText(id) ==
    CASE id = VS_TBL_ZERO_ERR_EID ->
           <<32, 110, 111, 116, 32, 122, 101, 114, 111, 101, 100>>
      [] id = VS_TBL_PAD_ERR_EID ->
           <<32, 112, 97, 100, 100, 105, 110, 103, 32, 110, 111, 116, 32,
             122, 101, 114, 111, 101, 100>>
      [] id = VS_TBL_LBND_ERR_EID ->
           <<32, 105, 110, 118, 97, 108, 105, 100, 32, 108, 111, 119, 32,
             98, 111, 117, 110, 100>>
      [] id = VS_TBL_HBND_ERR_EID ->
           <<32, 105, 110, 118, 97, 108, 105, 100, 32, 104, 105, 103, 104,
             32, 98, 111, 117, 110, 100>>
      [] id = VS_TBL_ORDER_ERR_EID ->
           <<32, 105, 110, 118, 97, 108, 105, 100, 32, 98, 111, 117, 110,
             100, 32, 111, 114, 100, 101, 114>>
      [] id = VS_TBL_EXTRA_ERR_EID ->
           <<32, 102, 111, 108, 108, 111, 119, 115, 32, 97, 110, 32, 117,
             110, 117, 115, 101, 100, 32, 101, 110, 116, 114, 121>>
      [] id = VS_TBL_REDEF_ERR_EID ->
           <<32, 114, 101, 100, 101, 102, 105, 110, 101, 115, 32, 101, 97,
             114, 108, 105, 101, 114, 32, 101, 110, 116, 114, 121>>
\* The line of an error of entry k: "Table entry k invalid Parm ID" for
\* PARM, "Table entry k parm P" and the text of the id for the others.
ErrorLine(k, id) ==
    <<84, 97, 98, 108, 101, 32, 101, 110, 116, 114, 121, 32>>
      \o Decimal(U32(k))
      \o IF id = VS_TBL_PARM_ERR_EID
         THEN <<32, 105, 110, 118, 97, 108, 105, 100, 32, 80, 97, 114, 109,
                32, 73, 68>>
         ELSE <<32, 112, 97, 114, 109, 32>>
                \o ParmName(entry_parm_id(k)) \o ErrorText(id)
\* The entry the input cursor is in: bytes 12(k-1)+1 .. 12k of the image
\* have been read last.
EntryUnderValidation == (g_head_index - 1) \div EntrySize + 1
\* The next step is a FLUSH that sends an event of type ERROR.
FlushesError ==
    /\ Steps
    /\ program'[g_pc].op = GRUNT_OP_FLUSH
    /\ Len(events') = Len(events) + 1
    /\ events'[Len(events')].type = U32(CFE_EVS_EventType_ERROR)

InvalidOperand(instruction) ==
    LET op == instruction.op
        rep == instruction.rep
        lit == instruction.lit
    IN \/ op = GRUNT_OP_PUSHB /\ lit.type # gt_bool
       \/ op = GRUNT_OP_PUSHN /\ lit.type # gt_num
       \/ op = GRUNT_OP_PUSHS /\ lit.type # gt_str
       \/ op \in {GRUNT_OP_CALL, GRUNT_OP_JMPIF} /\ lit.type # gt_pc
       \/ op = GRUNT_OP_JMPIF /\ lit.type = gt_pc /\ lit.val < 2
       \/ op \in {GRUNT_OP_DUP, GRUNT_OP_POP} /\ rep = 0
       \/ op \in {GRUNT_OP_ROLL, GRUNT_OP_EQ, GRUNT_OP_AND, GRUNT_OP_OR}
          /\ rep < 2
       \/ op = GRUNT_OP_INPUT /\ rep \notin {1, 2, 4}

(***************************************************************************)
(* C29.  A step that executes an instruction whose operand is invalid      *)
(* (PUSHB, PUSHN, PUSHS, CALL or JMPIF with a literal of the wrong         *)
(* variant, JMPIF with a literal below 2, DUP(0), POP(0), ROLL, EQ, AND or *)
(* OR with a count below 2, INPUT of a size other than 1, 2 and 4)         *)
(* returns InvalidLiteral and leaves both stacks, the input cursor and the *)
(* output line as they were, and sends no event, also when the stack is    *)
(* empty or full.                                                          *)
(***************************************************************************)
C29_InvalidOperandChangesNothing ==
    [][(Steps /\ InvalidOperand(program'[g_pc]))
       => /\ status' = GRUNT_ERROR_INVALIDLITERAL
          /\ StackUntouched
          /\ g_stack' = g_stack
          /\ g_head_index' = g_head_index
          /\ QueueUntouched
          /\ payload' = payload
          /\ events' = events
          /\ phase' = "exit"]_vars

\* An EQ(1) has ended the run with InvalidLiteral on an argument stack
\* that fills every slot.
C29_Witness ==
    /\ phase = "exit"
    /\ status = GRUNT_ERROR_INVALIDLITERAL
    /\ LastInstruction = EQ(1)
    /\ Room = 0
    /\ g_argument_count = GRUNT_STACK_SIZE

(***************************************************************************)
(* DUP and ROLL                                                            *)
(***************************************************************************)
\* The next step executes DUP, or ROLL, with the count n.
Dups(n) ==
    Steps /\ program'[g_pc].op = GRUNT_OP_DUP /\ program'[g_pc].rep = n
Rolls(n) ==
    Steps /\ program'[g_pc].op = GRUNT_OP_ROLL /\ program'[g_pc].rep = n
\* The counts a program of the model gives DUP and ROLL.
Counts == 1 .. 5
\* The step leaves the slots of the argument stack below the top n, and
\* the control stack, as they were.
BelowUntouched(n) ==
    /\ g_control_count' = g_control_count
    /\ \A i \in (0 .. (g_argument_count - n - 1)) \cup CtlArea :
         g_stack'[i] = g_stack[i]

(***************************************************************************)
(* C30, as stated.  DUP(n) with n slots on the argument stack and n slots  *)
(* free returns 0, leaves the slots it found as they were and appends a    *)
(* copy of the top n in the same order (x y z DUP 2 -> x y z y z).         *)
(* ROLL(n) with n slots on the argument stack returns 0, leaves the count  *)
(* and the slots below the top n as they were, puts the top slot n-th      *)
(* from the top and moves the n-1 slots below it up by one                 *)
(* (w x y z ROLL 3 -> w z x y), so that three ROLL(3) give back the stack  *)
(* they found.  With fewer than n slots both return OutOfBounds and        *)
(* change nothing.                                                         *)
(***************************************************************************)
C30_DupAndRoll ==
    /\ [][\A n \in Counts :
            Dups(n)
            => IF g_argument_count < n
               THEN status' = GRUNT_ERROR_OUTOFBOUNDS /\ StackUntouched
               ELSE Room >= n
                    => /\ status' = 0
                       /\ g_argument_count' = g_argument_count + n
                       /\ BelowUntouched(0)
                       /\ \A i \in 0 .. (n - 1) :
                            g_stack'[g_argument_count + i]
                              = g_stack[g_argument_count - n + i]]_vars
    /\ [][\A n \in Counts \ {1} :
            Rolls(n)
            => IF g_argument_count < n
               THEN status' = GRUNT_ERROR_OUTOFBOUNDS /\ StackUntouched
               ELSE /\ status' = 0
                    /\ g_argument_count' = g_argument_count
                    /\ BelowUntouched(n)
                    /\ g_stack'[g_argument_count - n]
                         = g_stack[g_argument_count - 1]
                    /\ \A i \in 1 .. (n - 1) :
                         g_stack'[g_argument_count - n + i]
                           = g_stack[g_argument_count - n + i - 1]]_vars
    /\ []((/\ family = "roll"
           /\ phase = "loop"
           /\ g_pc = Len(Distinct) + 3
           /\ \A a \in 0 .. (Len(Distinct) - 1) :
                a \in decided /\ program[a] = Distinct[a + 1]
           /\ \A a \in Len(Distinct) .. (Len(Distinct) + 2) :
                a \in decided /\ program[a] = ROLL(3))
          => /\ g_argument_count = 4
             /\ g_stack[0] = Num(U32(1))
             /\ g_stack[1] = Bool(TRUE)
             /\ g_stack[2] = Str(0)
             /\ g_stack[3] = Num(U32(2)))

(***************************************************************************)
(* SUB, LT and GT                                                          *)
(***************************************************************************)
\* The next step executes the operation  op  on two numbers: a, pushed
\* first, and b, on top.
OnTwoNumbers(op) ==
    /\ Steps
    /\ program'[g_pc].op = op
    /\ g_argument_count >= 2
    /\ g_stack[g_argument_count - 2].type = gt_num
    /\ g_stack[g_argument_count - 1].type = gt_num
\* The step pops two slots and pushes the value v.
TwoForOne(v) ==
    /\ status' = 0
    /\ g_argument_count' = g_argument_count - 1
    /\ g_stack'[g_argument_count - 2] = v
    /\ BelowUntouched(2)

(***************************************************************************)
(* C31.  For two numbers a and b with a pushed before b (b on top of the   *)
(* argument stack), SUB leaves a - b (where a >= b, the difference being   *)
(* a number), LT leaves the Boolean a < b and GT the Boolean a > b:        *)
(* 17 13 SUB leaves 4, 7 11 LT leaves true and 7 11 GT leaves false.       *)
(* Each pops exactly two slots and pushes one.                             *)
(***************************************************************************)
C31_SubLtGtOperandOrder ==
    /\ [][OnTwoNumbers(GRUNT_OP_SUB)
          => LET a == Small(g_stack[g_argument_count - 2])
                 b == Small(g_stack[g_argument_count - 1])
             IN /\ a >= b => TwoForOne(Num(U32(a - b)))
                /\ (a = 17 /\ b = 13) => g_stack'[g_argument_count - 2]
                                           = Num(<<0, 4>>)]_vars
    /\ [][OnTwoNumbers(GRUNT_OP_LT)
          => LET a == Small(g_stack[g_argument_count - 2])
                 b == Small(g_stack[g_argument_count - 1])
             IN /\ TwoForOne(Bool(a < b))
                /\ (a = 7 /\ b = 11) => g_stack'[g_argument_count - 2]
                                          = Bool(TRUE)]_vars
    /\ [][OnTwoNumbers(GRUNT_OP_GT)
          => LET a == Small(g_stack[g_argument_count - 2])
                 b == Small(g_stack[g_argument_count - 1])
             IN /\ TwoForOne(Bool(a > b))
                /\ (a = 7 /\ b = 11) => g_stack'[g_argument_count - 2]
                                          = Bool(FALSE)]_vars

\* 7 11 LT has left true in the one slot of the argument stack.
C31_Witness ==
    /\ family = "compare"
    /\ phase = "loop"
    /\ g_pc = 3
    /\ program[0] = PUSHN(7)
    /\ program[1] = PUSHN(11)
    /\ program[2] = LT
    /\ g_argument_count = 1
    /\ g_stack[0] = Bool(TRUE)

(***************************************************************************)
(* C32.  Frame conditions of the instruction set.  Only CALL, JMPIF and    *)
(* RETURN can leave the program counter different from the address of the  *)
(* instruction + 1; only CALL and RETURN change the control stack; only    *)
(* INPUT and REWIND change the input cursor; only OUTPUT and FLUSH change  *)
(* the output line; no instruction changes the program, the image or the   *)
(* string table.                                                           *)
(***************************************************************************)
C32_FrameConditions ==
    [][Steps
       => LET op == program'[g_pc].op
          IN /\ op \notin {GRUNT_OP_CALL, GRUNT_OP_JMPIF, GRUNT_OP_RETURN}
                => g_pc' = g_pc + 1
             /\ op \notin {GRUNT_OP_CALL, GRUNT_OP_RETURN}
                => /\ g_control_count' = g_control_count
                   /\ \A i \in CtlArea : g_stack'[i] = g_stack[i]
             /\ op \notin {GRUNT_OP_INPUT, GRUNT_OP_REWIND}
                => g_head_index' = g_head_index
             /\ op \notin {GRUNT_OP_OUTPUT, GRUNT_OP_FLUSH}
                => /\ g_output_queue' = g_output_queue
                   /\ g_tail_index' = g_tail_index
             /\ num_instructions' = num_instructions
             /\ \A a \in decided : program'[a] = program[a]
             /\ g_input_queue' = g_input_queue
             /\ g_input_queue_size' = g_input_queue_size
             /\ g_string_table' = g_string_table
             /\ g_num_strings' = g_num_strings]_vars

\* A RETURN has emptied the control stack and taken the program counter
\* to an address other than its own + 1, after an INPUT that moved the
\* cursor.
C32_Witness ==
    /\ phase = "loop"
    /\ executed > 0
    /\ LastInstruction = RETURN
    /\ g_control_count = 0
    /\ g_pc # current_instruction + 1
    /\ g_head_index = 1

(***************************************************************************)
(* The control stack as a measure of progress                              *)
(***************************************************************************)
\* The k-th entry of the control stack, counted from its bottom: the
\* control stack grows downward from the last slot.
ControlEntry(k) == g_stack[GRUNT_STACK_SIZE - k].val
\* Greater than every program counter.
Infinity == GRUNT_PC_MAX + 1
\* The i-th place of the tuple of the control stack's entries, bottom
\* first, followed by the program counter and padded with infinity.
Place(i) ==
    IF i <= g_control_count THEN ControlEntry(i)
    ELSE IF i = g_control_count + 1 THEN g_pc
    ELSE Infinity

(***************************************************************************)
(* C33.  In every reachable state of any run the control stack, read from  *)
(* bottom to top, is strictly increasing, and the program counter is       *)
(* greater than or equal to its top entry; hence the tuple (control stack  *)
(* entries, pc), padded with infinity, strictly increases                  *)
(* lexicographically at every executed instruction, RETURN included.       *)
(***************************************************************************)
C33_ControlStackIncreases ==
    /\ [](/\ \A k \in 1 .. (g_control_count - 1) :
               ControlEntry(k) < ControlEntry(k + 1)
          /\ g_control_count > 0 => g_pc >= ControlEntry(g_control_count))
    /\ [][Steps
          => \E j \in 1 .. (GRUNT_STACK_SIZE + 1) :
               /\ \A i \in 1 .. (j - 1) : Place(i)' = Place(i)
               /\ Place(j)' > Place(j)]_vars

\* A RETURN has taken the program counter back to the top entry of a
\* control stack of two entries; the entry left is below it.
C33_Witness ==
    /\ phase = "loop"
    /\ executed > 0
    /\ LastInstruction = RETURN
    /\ g_control_count = 1
    /\ g_pc = g_stack[GRUNT_STACK_SIZE - 2].val
    /\ g_pc > ControlEntry(1)

(***************************************************************************)
(* The validation program as a whole                                       *)
(***************************************************************************)
\* The run is one of the validation program on a table image.
RunsValidator == family \in {"vsvf", "entries", "builds"}
\* The next step executes the HALT of the validation program.
ValidatorHalts ==
    RunsValidator /\ Steps /\ program'[g_pc].op = GRUNT_OP_HALT

(***************************************************************************)
(* C34, as stated.  For every table image of sizeof(vs_table_t) = 48 bytes *)
(* the validation program never faults: the run always ends in HaltTrue or *)
(* HaltFalse, the argument and the control stack together never hold more  *)
(* than the 32 slots there are, and at the HALT the argument stack holds   *)
(* exactly the one verdict Boolean, the control stack is empty and the     *)
(* output line is empty.                                                   *)
(***************************************************************************)
C34_ValidatorNeverFaults ==
    /\ [](RunsValidator
          => /\ phase \in {"exit", "returned"} => status \in Halts
             /\ phase = "loop" => /\ status = 0
                                  /\ g_input_queue_size = 4 * EntrySize
             /\ phase # "trapped"
             /\ g_argument_count + g_control_count <= GRUNT_STACK_SIZE)
    /\ [][ValidatorHalts
          => /\ g_argument_count = 1
             /\ g_stack[0].type = gt_bool
             /\ g_control_count = 0
             /\ g_tail_index = 0
             /\ g_argument_count' = 0
             /\ status' = IF g_stack[0].val = 1 THEN GRUNT_HALT_TRUE
                          ELSE GRUNT_HALT_FALSE]_vars

(***************************************************************************)
(* The input an entry costs                                                *)
(***************************************************************************)
\* The next step is a RETURN that takes the run back into MAIN, behind a
\* call of VALIDATE_ENTRY.
ReturnsToMain ==
    /\ Steps
    /\ program'[g_pc].op = GRUNT_OP_RETURN
    /\ status' = 0
    /\ g_pc' \in 2 .. (VALIDATE_ENTRY - 1)
    /\ program[g_pc' - 1] = CALL(VALIDATE_ENTRY)
\* The next step is the FLUSH of EMIT_INFO.
FlushesInfo ==
    /\ Steps
    /\ program'[g_pc].op = GRUNT_OP_FLUSH
    /\ g_pc \in EMIT_INFO .. (EMIT_INFO + EMIT_INFO_LOC - 1)

(***************************************************************************)
(* C35.  Every path through the validation program's subroutine for one    *)
(* entry (valid unused, unused and not zeroed, in use with any combination *)
(* of errors, invalid parm id) consumes the same number of input bytes,    *)
(* 1 + 1 + 2 + 4 + 4 = 12, and the program never executes REWIND; so the   *)
(* parm id of entry k is always read at offset 12(k-1), no earlier entry's *)
(* content can shift where a later entry is read, and the cursor is at 48  *)
(* when the INFO event is emitted.                                         *)
(***************************************************************************)
C35_EveryPathReadsTwelveBytes ==
    /\ [][(RunsValidator /\ Steps)
          => /\ program'[g_pc].op # GRUNT_OP_REWIND
             /\ program'[g_pc].op = GRUNT_OP_INPUT
                => LET at == g_head_index % EntrySize
                       n == program'[g_pc].rep
                   IN /\ status' = 0
                      /\ g_head_index' = g_head_index + n
                      /\ \/ n = 1 /\ at = 0 /\ g_pc = VALIDATE_ENTRY
                         \/ n = 1 /\ at = 1
                         \/ n = 2 /\ at = 2
                         \/ n = 4 /\ at \in {4, 8}
                      /\ g_pc = VALIDATE_ENTRY => at = 0]_vars
    /\ [][(RunsValidator /\ ReturnsToMain)
          => LET k == program[g_pc' - 2].lit.val[2]
             IN /\ program[g_pc' - 2] = PUSHN(k)
                /\ g_head_index' = EntrySize * k]_vars
    /\ [][(RunsValidator /\ FlushesInfo)
          => /\ g_head_index = 4 * EntrySize
             /\ g_head_index' = g_head_index
             /\ Len(events') = Len(events) + 1
             /\ events'[Len(events')].id = U32(VS_VALIDATION_INF_EID)]_vars

\* The INFO event has been emitted with the cursor at 48, for an image
\* whose first entry has no parm id, whose second is unused and whose third
\* is in use.
C35_Witness ==
    /\ RunsValidator
    /\ phase = "exit"
    /\ g_head_index = 4 * EntrySize
    /\ entry_parm_id(1) \notin Animals \cup Directions \cup {VS_PARM_UNUSED}
    /\ ZeroedUnused(2)
    /\ InUse(3)
    /\ Len(events) >= 1
    /\ events[Len(events)].id = U32(VS_VALIDATION_INF_EID)

(***************************************************************************)
(* vsa_table.c: the validation function of VSA, written in C, applied to   *)
(* the table image the validation program reads.  A function returns its   *)
(* result and the events it has sent, in order.                            *)
(***************************************************************************)
\* a & b and a | b of two uint8.
RECURSIVE BitAnd(_, _)
BitAnd(a, b) ==
    IF a = 0 \/ b = 0 THEN 0
    ELSE (a % 2) * (b % 2) + 2 * BitAnd(a \div 2, b \div 2)
RECURSIVE BitOr(_, _)
BitOr(a, b) ==
    IF a = 0 THEN b
    ELSE IF b = 0 THEN a
    ELSE (IF a % 2 = 1 \/ b % 2 = 1 THEN 1 ELSE 0)
           + 2 * BitOr(a \div 2, b \div 2)

\* The name of a parm id, in ASCII; "Invalid" by default.
parm_id_to_string(parm_id) ==
    CASE parm_id = VS_PARM_UNUSED -> <<85, 110, 117, 115, 101, 100>>
      [] parm_id = VS_PARM_APE -> <<65, 112, 101>>
      [] parm_id = VS_PARM_BAT -> <<66, 97, 116>>
      [] parm_id = VS_PARM_CAT -> <<67, 97, 116>>
      [] parm_id = VS_PARM_DOG -> <<68, 111, 103>>
      [] parm_id = VS_PARM_NORTH -> <<78, 111, 114, 116, 104>>
      [] parm_id = VS_PARM_SOUTH -> <<83, 111, 117, 116, 104>>
      [] parm_id = VS_PARM_EAST -> <<69, 97, 115, 116>>
      [] parm_id = VS_PARM_WEST -> <<87, 101, 115, 116>>
      [] OTHER -> <<73, 110, 118, 97, 108, 105, 100>>

\* CFE_EVS_SendEvent(id, CFE_EVS_EventType_ERROR,
\*                   "Table entry %u parm %s <text of the id>", i + 1,
\*                   parm_id_to_string(p_entry->parm_id))
vsa_error(id, i) ==
    [id |-> U32(id), type |-> U32(CFE_EVS_EventType_ERROR),
     text |-> <<84, 97, 98, 108, 101, 32, 101, 110, 116, 114, 121, 32>>
                \o Decimal(U32(i + 1)) \o <<32, 112, 97, 114, 109, 32>>
                \o parm_id_to_string(entry_parm_id(i + 1))
                \o ErrorText(id)]

\* The test with | in place of &: the padding is valid when no byte of it
\* has a bit set.
pad_is_valid_all_zero(i) ==
    LET pad == entry_pad(i + 1)
    IN IF BitOr(BitOr(pad[1], pad[2]), pad[3]) = 0
       THEN [rc |-> TRUE, events |-> <<>>]
       ELSE [rc |-> FALSE, events |-> <<vsa_error(VS_TBL_PAD_ERR_EID, i)>>]

pad_is_valid(i) ==
    LET pad == entry_pad(i + 1)
    IN IF BitAnd(BitAnd(pad[1], pad[2]), pad[3]) = 0
       THEN [rc |-> TRUE, events |-> <<>>]
       ELSE [rc |-> FALSE, events |-> <<vsa_error(VS_TBL_PAD_ERR_EID, i)>>]

bounds_are_valid(i, min, max) ==
    LET low == entry_bound_low(i + 1)
        high == entry_bound_high(i + 1)
        lbnd == U32Less(low, min) \/ U32Less(max, low)
        hbnd == U32Less(high, min) \/ U32Less(max, high)
        order == U32Less(high, low)
    IN [rc |-> ~(lbnd \/ hbnd \/ order),
        events |->
          (IF lbnd THEN <<vsa_error(VS_TBL_LBND_ERR_EID, i)>> ELSE <<>>)
          \o (IF hbnd THEN <<vsa_error(VS_TBL_HBND_ERR_EID, i)>> ELSE <<>>)
          \o (IF order THEN <<vsa_error(VS_TBL_ORDER_ERR_EID, i)>>
              ELSE <<>>)]

unused_entry_is_valid(i) ==
    IF /\ entry_pad(i + 1) = <<0, 0, 0>>
       /\ entry_bound_low(i + 1) = <<0, 0>>
       /\ entry_bound_high(i + 1) = <<0, 0>>
    THEN [rc |-> TRUE, events |-> <<>>]
    ELSE [rc |-> FALSE, events |-> <<vsa_error(VS_TBL_ZERO_ERR_EID, i)>>]

inuse_entry_is_valid(i, saw_valid_unused_flag, parms_seen, min, max) ==
    LET pad == pad_is_valid(i)
        bounds == bounds_are_valid(i, min, max)
        redef == BitAnd(parms_seen, entry_parm_id(i + 1)) # 0
    IN [rc |-> pad.rc /\ bounds.rc /\ ~saw_valid_unused_flag /\ ~redef,
        events |->
          pad.events \o bounds.events
          \o (IF saw_valid_unused_flag
              THEN <<vsa_error(VS_TBL_EXTRA_ERR_EID, i)>> ELSE <<>>)
          \o (IF redef THEN <<vsa_error(VS_TBL_REDEF_ERR_EID, i)>>
              ELSE <<>>)]

VS_TABLE_NUM_ENTRIES == 4
\* for (i = 0; i < VSA_TABLE_NUM_ENTRIES; i++), from the i-th pass on.
RECURSIVE VSA_table_validate_loop(_, _)
VSA_table_validate_loop(i, s) ==
    IF ~(i < VS_TABLE_NUM_ENTRIES) THEN s
    ELSE
      LET parm_id == entry_parm_id(i + 1)
          Counted(r, unused) ==
              [s EXCEPT
                 !.events = @ \o r.events,
                 !.count_unused = IF r.rc /\ unused THEN @ + 1 ELSE @,
                 !.saw_valid_unused_flag = @ \/ (r.rc /\ unused),
                 !.count_valid = IF r.rc /\ ~unused THEN @ + 1 ELSE @,
                 !.count_invalid = IF r.rc THEN @ ELSE @ + 1,
                 !.result = IF r.rc THEN @ ELSE VSC_TABLE_INVALID_RESULT,
                 !.parms_seen = IF unused THEN @ ELSE BitOr(@, parm_id)]
      IN VSA_table_validate_loop(i + 1,
           CASE parm_id = VS_PARM_UNUSED ->
                  Counted(unused_entry_is_valid(i), TRUE)
             [] parm_id \in Animals ->
                  Counted(inuse_entry_is_valid(
                            i, s.saw_valid_unused_flag, s.parms_seen,
                            U32(VS_PARM_ANIMAL_MIN),
                            U32(VS_PARM_ANIMAL_MAX)), FALSE)
             [] parm_id \in Directions ->
                  Counted(inuse_entry_is_valid(
                            i, s.saw_valid_unused_flag, s.parms_seen,
                            U32(VS_PARM_DIRECTION_MIN),
                            U32(VS_PARM_DIRECTION_MAX)), FALSE)
             [] OTHER ->
                  [s EXCEPT
                     !.events =
                        Append(@, [id |-> U32(VS_TBL_PARM_ERR_EID),
                                   type |-> U32(CFE_EVS_EventType_ERROR),
                                   text |->
                                     <<84, 97, 98, 108, 101, 32, 101, 110,
                                       116, 114, 121, 32>>
                                     \o Decimal(U32(i + 1))
                                     \o <<32, 105, 110, 118, 97, 108, 105,
                                          100, 32, 80, 97, 114, 109, 32, 73,
                                          68>>]),
                     !.count_invalid = @ + 1,
                     !.result = VSC_TABLE_INVALID_RESULT])

\* The events VSA_table_validate sends for the image and the status it
\* returns.
VSA_table_validate ==
    LET s == VSA_table_validate_loop(
               0, [saw_valid_unused_flag |-> FALSE, parms_seen |-> 0,
                   result |-> CFE_SUCCESS, count_unused |-> 0,
                   count_valid |-> 0, count_invalid |-> 0,
                   events |-> <<>>])
    IN [result |-> s.result,
        events |->
          Append(s.events,
                 [id |-> U32(VS_VALIDATION_INF_EID),
                  type |-> U32(CFE_EVS_EventType_INFORMATION),
                  text |-> <<84, 97, 98, 108, 101, 32, 105, 109, 97, 103,
                             101, 32, 101, 110, 116, 114, 105, 101, 115, 58,
                             32>>
                           \o Decimal(U32(s.count_valid))
                           \o <<32, 118, 97, 108, 105, 100, 44, 32>>
                           \o Decimal(U32(s.count_invalid))
                           \o <<32, 105, 110, 118, 97, 108, 105, 100, 44,
                                32>>
                           \o Decimal(U32(s.count_unused))
                           \o <<32, 117, 110, 117, 115, 101, 100>>])]

\* VSC_table_validate has returned from the validation of an image.
ValidatorReturned == RunsValidator /\ vsc = "left"

(***************************************************************************)
(* C36, as stated.  For every table image the validation program of VSC    *)
(* and the validation function of VSA, written in C, emit the same         *)
(* sequence of events (id, type, message) and return the same verdict; in  *)
(* particular they agree on PAD for every combination of the three bytes   *)
(* of padding, combinations whose bytes differ from one another included.  *)
(***************************************************************************)
C36_ValidatorsAgree ==
    [](ValidatorReturned
       => /\ events = VSA_table_validate.events
          /\ vsc_result = VSA_table_validate.result)

(***************************************************************************)
(* The verdict and the errors                                              *)
(***************************************************************************)
\* An error event names entry k.
Erred(k) == ErrorsOf(k) # <<>>
ValidNoError(k) == InUse(k) /\ ~Erred(k)
UnusedNoError(k) == entry_parm_id(k) = VS_PARM_UNUSED /\ ~Erred(k)

(***************************************************************************)
(* C37, as stated.  For every table image the validation program halts     *)
(* with false                                                              *)
(* iff it has emitted at least one ERROR event; more precisely an entry    *)
(* is counted invalid iff at least one ERROR event was emitted for that    *)
(* entry, and entries counted valid or unused emit none: the counts of     *)
(* the information line are the numbers of entries in use without an       *)
(* error event, of entries with one, and of unused entries without one.    *)
(***************************************************************************)
C37_FalseIffErrorEvent ==
    [](RunsValidator /\ phase = "exit" /\ status \in Halts
       => /\ (status = GRUNT_HALT_FALSE) <=> (ErrorEvents # <<>>)
          /\ \A n \in DOMAIN ErrorEvents :
               \E k \in 1 .. VS_TABLE_NUM_ENTRIES :
                 NamesEntry(ErrorEvents[n].text, k)
          /\ events # <<>>
          /\ events[Len(events)].text
               = InfoLine(CountEntries(ValidNoError, VS_TABLE_NUM_ENTRIES),
                          CountEntries(Erred, VS_TABLE_NUM_ENTRIES),
                          CountEntries(UnusedNoError, VS_TABLE_NUM_ENTRIES)))

(***************************************************************************)
(* The type line                                                           *)
(***************************************************************************)
\* Every slot of the argument area holds a Boolean, a number or a string,
\* and every slot of the control area a program counter.
TypeLine ==
    /\ \A i \in ArgArea : g_stack[i].type \in {gt_bool, gt_num, gt_str}
    /\ \A i \in CtlArea : g_stack[i].type = gt_pc

(***************************************************************************)
(* C38.  For any program run by GRUNT_Run on an image that is not null,   *)
(* the status InterpreterBug is never reached: no step and no run returns  *)
(* it, whatever the operands of the instructions (DUP(0), ROLL(0),         *)
(* ROLL(1), INPUT of a width that is not 1, 2 or 4, literals of the wrong  *)
(* variant), and no program counter is ever in the argument area of the    *)
(* stack nor a value that is not one in the control area.                  *)
(***************************************************************************)
C38_NoInterpreterBug ==
    [](/\ status # GRUNT_ERROR_INTERPRETERBUG
       /\ \A n \in DOMAIN history :
            history[n].status # GRUNT_ERROR_INTERPRETERBUG
       /\ phase \in {"loop", "exit", "returned"}
            => /\ ~g_input_queue.null
               /\ TypeLine)

\* A ROLL of a count below 2, or a DUP(0), has ended a run with
\* InvalidLiteral while a value was on each of the two stacks.
C38_Witness ==
    /\ phase = "exit"
    /\ executed > 0
    /\ current_instruction \in DOMAIN program
    /\ LastInstruction \in {DUP(0), ROLL(0), ROLL(1)}
    /\ status = GRUNT_ERROR_INVALIDLITERAL
    /\ g_argument_count > 0
    /\ g_control_count > 0
    /\ ~g_input_queue.null

(***************************************************************************)
(* Parm names                                                              *)
(***************************************************************************)
\* The bytes of word occur in line.
Holds(line, word) ==
    \E i \in 1 .. (Len(line) - Len(word) + 1) :
      SubSeq(line, i, i + Len(word) - 1) = word
\* The nine parm ids that have a name, and the lines in which " parm " is
\* followed by one of the nine names.
KnownParms ==
    {VS_PARM_UNUSED, VS_PARM_APE, VS_PARM_BAT, VS_PARM_CAT, VS_PARM_DOG,
     VS_PARM_NORTH, VS_PARM_SOUTH, VS_PARM_EAST, VS_PARM_WEST}
NamesKnownParm(line) ==
    \E name \in 15 .. 23 :
      Holds(line, vsvf_strings[6] \o vsvf_strings[name] \o <<32>>)
\* The next step executes the first instruction of PARM_TO_STR.
EntersParmToStr == Steps /\ g_pc = PARM_TO_STR

OutputsLongString ==
    /\ Steps
    /\ program'[g_pc].op = GRUNT_OP_OUTPUT
    /\ g_argument_count > 0
    /\ g_stack[g_argument_count - 1].type = gt_str
    /\ g_stack[g_argument_count - 1].val < g_num_strings
    /\ Len(g_string_table[g_stack[g_argument_count - 1].val + 1])
         > GRUNT_REP_MAX

(***************************************************************************)
(* C40, as stated.  OUTPUT of a string that is longer than 65535 bytes     *)
(* returns OutOfBounds and appends nothing to the output line: the length  *)
(* is never reduced modulo 2^16 and the append reported as a success.      *)
(***************************************************************************)
C40_LongStringIsOutOfBounds ==
    [][OutputsLongString
       => /\ status' = GRUNT_ERROR_OUTOFBOUNDS
          /\ QueueUntouched
          /\ payload' = payload]_vars

====
